---- MODULE Spec2Model ----
(***************************************************************************)
(* Model of ArduCopter's guided flight mode (ArduCopter/mode_guided.cpp).  *)
(*                                                                         *)
(* The program state is the set of file-scope statics of mode_guided.cpp   *)
(* (targets, time stamps, angle state, limits), the sub-mode guided_mode,  *)
(* and the part of the collaborators (auto_yaw, wp_nav, pos_control,       *)
(* circle_nav, motors, ap flags, inertial_nav, millis) that the mode reads *)
(* or writes.  Each C++ method is a function from a state record to a      *)
(* state record, so that nested calls compose as in the source; each       *)
(* externally callable method is one action.                               *)
(*                                                                         *)
(* Numbers: lengths are whole centimetres, speeds whole cm/s, angles whole *)
(* centidegrees, thrust is in thousandths.  A float product or quotient is *)
(* truncated toward zero to a whole unit.  millis() is a 32 bit counter,   *)
(* held as its two 16 bit halves.                                          *)
(***************************************************************************)
EXTENDS Integers, Sequences, FiniteSets, TLC

VARIABLES
    guided_mode,            \* ModeGuided::guided_mode
    guided_pos_target_cm,   \* position target (posvel controller only)
    guided_vel_target_cms,  \* velocity target (velocity and posvel controllers)
    posvel_update_time_ms,  \* time of last posvel target update
    vel_update_time_ms,     \* time of last velocity target update
    guided_angle_state,     \* angle target record
    guided_limit,           \* Guided_Limit record
    auto_yaw,               \* yaw state (mode and its argument)
    wp_nav,                 \* waypoint navigation: destination, terrain flag
    pos_control,            \* position control: targets and limits
    circle_nav,             \* circle navigation: center, radius
    motors,                 \* armed, desired spool state, actual spool state
    ap,                     \* auto_armed, land_complete
    inertial_nav,           \* position and velocity estimate
    now,                    \* millis()
    ingest,                 \* the set_destination_posvel call in progress, if any
    out                     \* what the last call did: calls made on collaborators, result

vars == <<guided_mode, guided_pos_target_cm, guided_vel_target_cms,
          posvel_update_time_ms, vel_update_time_ms, guided_angle_state,
          guided_limit, auto_yaw, wp_nav, pos_control, circle_nav, motors, ap,
          inertial_nav, now, ingest, out>>

(***************************************************************************)
(* Program constants                                                       *)
(***************************************************************************)
GUIDED_POSVEL_TIMEOUT_MS == 3000

GUIDED_ATTITUDE_TIMEOUT_MS == 1000

\* dist_to_edge threshold of circle_movetoedge_start
CIRCLE_EDGE_DIST_CM == 300

\* dist_to_center threshold of circle_movetoedge_start
CIRCLE_CENTER_DIST_CM == 500

\* dt sanity limit of posvel_control_run, in milliseconds (0.2f seconds)
POSVEL_DT_MAX_MS == 200

\* millis() and the time stamps are uint32_t: a value is <<high, low>>, its two
\* 16 bit halves; WORD is 2^16
WORD == 65536

Guided_TakeOff == "Guided_TakeOff"
Guided_WP == "Guided_WP"
Guided_Velocity == "Guided_Velocity"
Guided_PosVel == "Guided_PosVel"
Guided_Angle == "Guided_Angle"
Guided_Circle == "Guided_Circle"
Guided_CircleMoveToEdge == "Guided_CircleMoveToEdge"

GuidedModes == {Guided_TakeOff, Guided_WP, Guided_Velocity, Guided_PosVel,
                Guided_Angle, Guided_Circle, Guided_CircleMoveToEdge}

AUTO_YAW_HOLD == "AUTO_YAW_HOLD"
AUTO_YAW_LOOK_AT_NEXT_WP == "AUTO_YAW_LOOK_AT_NEXT_WP"
AUTO_YAW_ROI == "AUTO_YAW_ROI"
AUTO_YAW_FIXED == "AUTO_YAW_FIXED"
AUTO_YAW_RATE == "AUTO_YAW_RATE"

MAV_CMD_NAV_LOITER_TURNS == "MAV_CMD_NAV_LOITER_TURNS"
MAV_CMD_NAV_WAYPOINT == "MAV_CMD_NAV_WAYPOINT"

(***************************************************************************)
(* Vehicle parameters read through the collaborators                       *)
(***************************************************************************)
\* main loop period G_Dt, in milliseconds
G_Dt_ms == 10

\* wp_nav->get_wp_acceleration(), cm/s/s
WPNAV_ACCEL == 500

\* g.pilot_accel_z, cm/s/s
PILOT_ACCEL_Z == 300

\* wp_nav->get_accel_z(), cm/s/s
WPNAV_ACCEL_Z == 200

\* wp_nav->get_default_speed_up(), cm/s
WPNAV_SPEED_UP == 250

\* wp_nav->get_default_speed_down(), cm/s
WPNAV_SPEED_DN == 150

\* MIN(attitude_control->get_althold_lean_angle_max(), copter.aparm.angle_max), centidegrees
ANGLE_MAX == 4500

(***************************************************************************)
(* Bounds of the model                                                     *)
(***************************************************************************)
\* the clock stops advancing once it is this many milliseconds past StartTime
MaxElapsed == 4004

\* the posvel driver is followed while its dead-reckoned position target is
\* within this many centimetres of the origin on every axis
MaxCoord == 260

(***************************************************************************)
(* Arithmetic helpers                                                      *)
(***************************************************************************)
Abs(x) == IF x < 0 THEN -x ELSE x

Sgn(x) == IF x < 0 THEN -1 ELSE IF x > 0 THEN 1 ELSE 0

Sq(x) == x * x

Min(a, b) == IF a < b THEN a ELSE b

Max(a, b) == IF a > b THEN a ELSE b

\* the uint32_t with value n, 0 <= n < 2^31
U32(n) == <<n \div WORD, n % WORD>>

\* uint32_t addition a + d, d a small natural number: modulo 2^32
Add32(a, d) ==
    LET lo == a[2] + d
    IN <<(a[1] + lo \div WORD) % WORD, lo % WORD>>

\* (mutation of Sub32: the difference is not reduced modulo 2^32 but stops at 0)
Sub32_saturating(a, b) ==
    LET lo == a[2] - b[2]
        borrow == IF lo < 0 THEN 1 ELSE 0
    IN IF a[1] - b[1] - borrow < 0 THEN <<0, 0>>
       ELSE <<a[1] - b[1] - borrow, lo % WORD>>

\* uint32_t subtraction a - b: modulo 2^32
Sub32(a, b) ==
    LET lo == a[2] - b[2]
        borrow == IF lo < 0 THEN 1 ELSE 0
    IN <<(a[1] - b[1] - borrow) % WORD, lo % WORD>>

\* uint32_t comparisons
Gt32(a, b) == a[1] > b[1] \/ (a[1] = b[1] /\ a[2] > b[2])

Ge32(a, b) == a = b \/ Gt32(a, b)

\* constrain_float(v, lo, hi)
constrain_float(v, lo, hi) == IF v < lo THEN lo ELSE IF v > hi THEN hi ELSE v

\* is_positive / is_zero on whole units
is_positive(x) == x > 0

is_zero(x) == x = 0

\* wrap_180_cd: angle in centidegrees wrapped into (-18000, 18000]
wrap_180_cd(a) ==
    LET r == a % 36000
    IN IF r > 18000 THEN r - 36000 ELSE r

\* vectors are <<x, y, z>>
Zero3 == <<0, 0, 0>>

VAdd(a, b) == <<a[1] + b[1], a[2] + b[2], a[3] + b[3]>>

VSub(a, b) == <<a[1] - b[1], a[2] - b[2], a[3] - b[3]>>

\* squared lengths: sq(x)+sq(y) and Vector3f::length squared
NormSqXY(v) == Sq(v[1]) + Sq(v[2])

LengthSq(v) == Sq(v[1]) + Sq(v[2]) + Sq(v[3])

\* x / y truncated toward zero, y > 0
TruncDiv(x, y) == Sgn(x) * (Abs(x) \div y)

\* floor of the square root, by Newton's iteration from above
RECURSIVE SqrtFrom(_, _)
SqrtFrom(n, x) ==
    LET y == (x + n \div x) \div 2
    IN IF y >= x THEN x ELSE SqrtFrom(n, y)

ISqrt(n) == IF n < 2 THEN n ELSE SqrtFrom(n, n \div 2 + 1)

\* d * m / sqrt(n2), truncated toward zero: the largest k with k*k*n2 <= (d*m)^2.
\* Used for v * (limit / |v|) with |v|^2 = n2 > 0, m >= 0.
ScaleByNorm(d, m, n2) ==
    LET a == Abs(d) * m
        r == ISqrt(n2)
        k == IF Sq(r) = n2
             THEN a \div r
             ELSE CHOOSE j \in (a \div (r + 1))..(a \div r) :
                      Sq(j) * n2 <= Sq(a) /\ Sq(j + 1) * n2 > Sq(a)
    IN Sgn(d) * k

(***************************************************************************)
(* The state as one record, so that a method is a function on states       *)
(***************************************************************************)
S == [guided_mode |-> guided_mode,
      guided_pos_target_cm |-> guided_pos_target_cm,
      guided_vel_target_cms |-> guided_vel_target_cms,
      posvel_update_time_ms |-> posvel_update_time_ms,
      vel_update_time_ms |-> vel_update_time_ms,
      guided_angle_state |-> guided_angle_state,
      guided_limit |-> guided_limit,
      auto_yaw |-> auto_yaw,
      wp_nav |-> wp_nav,
      pos_control |-> pos_control,
      circle_nav |-> circle_nav,
      motors |-> motors,
      ap |-> ap,
      inertial_nav |-> inertial_nav,
      now |-> now,
      ingest |-> ingest,
      out |-> out]

Apply(s) ==
    /\ guided_mode' = s.guided_mode
    /\ guided_pos_target_cm' = s.guided_pos_target_cm
    /\ guided_vel_target_cms' = s.guided_vel_target_cms
    /\ posvel_update_time_ms' = s.posvel_update_time_ms
    /\ vel_update_time_ms' = s.vel_update_time_ms
    /\ guided_angle_state' = s.guided_angle_state
    /\ guided_limit' = s.guided_limit
    /\ auto_yaw' = s.auto_yaw
    /\ wp_nav' = s.wp_nav
    /\ pos_control' = s.pos_control
    /\ circle_nav' = s.circle_nav
    /\ motors' = s.motors
    /\ ap' = s.ap
    /\ inertial_nav' = s.inertial_nav
    /\ now' = s.now
    /\ ingest' = s.ingest
    /\ out' = s.out

(***************************************************************************)
(* The record of one call: its name, its arguments, its result, and the    *)
(* calls it made on the collaborators.  Every call starts from NoOut.      *)
(***************************************************************************)
NoAtt == [type |-> "none", src |-> "none", roll |-> 0, pitch |-> 0, yaw |-> 0]

NoOut == [op |-> "none",         \* the method called
          ret |-> "void",        \* "void", "true" or "false"
          arg_pos |-> Zero3,     \* destination argument
          arg_vel |-> Zero3,     \* velocity argument
          use_yaw |-> FALSE,     \* use_yaw argument
          use_yaw_rate |-> FALSE, \* use_yaw_rate argument
          yaw_opts |-> [use_yaw |-> FALSE, yaw_cd |-> 0, use_yaw_rate |-> FALSE,
                        yaw_rate_cds |-> 0, relative_yaw |-> FALSE], \* the five yaw arguments
          fence_ok |-> TRUE,     \* the fence's answer, when the call asked
          terrain_ok |-> TRUE,   \* wp_nav's answer on the destination, when the call asked
          in_guided |-> TRUE,    \* copter.flightmode == &copter.mode_guided, as read
          center_ok |-> TRUE,    \* get_vector_from_origin_NEU's answer, when the call asked
          dt_ms |-> 0,           \* time_since_last_xy_update() as read, ms
          cmd |-> "none",        \* mission command id argument
          driver |-> "none",     \* the driver run() dispatched to
          started |-> <<>>,      \* the *_start initializers run, in order
          calls |-> {},          \* collaborator calls made
          err |-> "none",        \* error code written to the logger
          stale |-> FALSE,       \* the driver found its target timed out
          pilot_yaw |-> FALSE,   \* the driver found the pilot's yaw rate non-zero
          reached |-> FALSE,     \* wp_nav->reached_wp_destination() as read by the call
          att |-> NoAtt,         \* attitude command issued
          throttle_out |-> 0,    \* argument of set_throttle_out
          climb |-> 0,           \* argument of set_alt_target_from_climb_rate_ff
          avoided |-> 0,         \* climb rate get_avoidance_adjusted_climbrate returned
          vel_req |-> Zero3,     \* vel_des handed to the accel/fence limiter
          vel_prev |-> Zero3,    \* desired velocity before the limiter ran
          vel_limited |-> Zero3, \* desired velocity after the acceleration limits
          edge |-> Zero3]        \* closest point on the circle, as circle_nav gave it

Begin(s, name) == [s EXCEPT !.out = [NoOut EXCEPT !.op = name]]

Call(s, c) == [s EXCEPT !.out.calls = @ \cup {c}]

Return(s, r) == [s EXCEPT !.out.ret = r]

LogError(s, code) == [s EXCEPT !.out.err = code]

(***************************************************************************)
(* auto_yaw: the yaw mode with the argument that mode uses                 *)
(***************************************************************************)
YawState(m, yaw_deg, rate_cds, rel) ==
    [mode |-> m, yaw_deg |-> yaw_deg, rate_cds |-> rate_cds, relative |-> rel]

\* AutoYaw::set_mode: no change when the mode is already selected
AutoYaw_set_mode(y, m) == IF y.mode = m THEN y ELSE YawState(m, 0, 0, FALSE)

\* AutoYaw::set_fixed_yaw(angle_deg, 0, 0, relative_angle)
AutoYaw_set_fixed_yaw(y, angle_deg, rel) == YawState(AUTO_YAW_FIXED, angle_deg, 0, rel)

\* AutoYaw::set_rate(turn_rate_cds)
AutoYaw_set_rate(y, rate_cds) == YawState(AUTO_YAW_RATE, 0, rate_cds, FALSE)

\* the mode AutoYaw::set_mode_to_default(false) selects, by WP_YAW_BEHAVIOR
DefaultYawModes == {AUTO_YAW_HOLD, AUTO_YAW_LOOK_AT_NEXT_WP}

(***************************************************************************)
(* Environment read by a call: results the collaborators return to it      *)
(***************************************************************************)
Env0 == [fence_ok |-> TRUE,          \* fence.check_destination_within_fence
         terrain_ok |-> TRUE,        \* wp_nav->set_wp_destination(Location) succeeded
         stopping_point |-> Zero3,   \* wp_nav->get_wp_stopping_point
         default_yaw |-> AUTO_YAW_LOOK_AT_NEXT_WP,  \* mode chosen by set_mode_to_default
         active_z |-> TRUE,          \* pos_control->is_active_z()
         reached |-> FALSE,          \* wp_nav->reached_wp_destination()
         pilot_yaw_rate |-> 0,       \* get_pilot_desired_yaw_rate(...)
         failsafe_radio |-> FALSE,   \* copter.failsafe.radio
         ignore_pilot_yaw |-> FALSE, \* guided_options & IgnorePilotYaw
         dt_ms |-> 10,               \* pos_control->time_since_last_xy_update(), ms
         avoid_climb_max |-> 100000, \* ceiling applied by get_avoidance_adjusted_climbrate
         avoid_active |-> FALSE,     \* avoid.adjust_velocity stops the vehicle at a fence
         center_ok |-> TRUE,         \* Location::get_vector_from_origin_NEU succeeded
         edge |-> Zero3,             \* circle_nav->get_closest_point_on_circle
         in_guided |-> TRUE,         \* copter.flightmode == &copter.mode_guided
         turns_done |-> 0,           \* fabsf(circle_nav->get_angle_total()/M_2PI), whole turns
         ahrs |-> Zero3,             \* ahrs roll_sensor, pitch_sensor, yaw_sensor
         rangefinder_ok |-> FALSE,   \* rangefinder used, healthy, terrain source, alt in range
         rangefinder_alt_cm |-> 0,   \* copter.rangefinder_state.alt_cm
         rangefinder_max_cm |-> 700] \* rangefinder.max_distance_cm_orient(ROTATION_PITCH_270)

(***************************************************************************)
(* Mode initializers                                                       *)
(***************************************************************************)
Started(s, name) == [s EXCEPT !.out.started = Append(@, name)]

\* ModeGuided::pos_control_start
pos_control_start(s, e) ==
    LET s1 == Call(Started([s EXCEPT !.guided_mode = Guided_WP], "pos_control_start"),
                   "wp_and_spline_init")
    IN [s1 EXCEPT !.wp_nav = [dest |-> e.stopping_point, terrain_alt |-> FALSE],
                  !.auto_yaw = AutoYaw_set_mode(@, e.default_yaw)]

\* ModeGuided::vel_control_start; init_vel_controller_xyz takes the targets
\* from the current position and velocity
vel_control_start(s, e) ==
    LET s1 == Call(Started([s EXCEPT !.guided_mode = Guided_Velocity], "vel_control_start"),
                   "init_vel_controller_xyz")
    IN [s1 EXCEPT !.pos_control.max_accel_xy = WPNAV_ACCEL,
                  !.pos_control.max_accel_z = PILOT_ACCEL_Z,
                  !.pos_control.pos_target = s.inertial_nav.pos,
                  !.pos_control.desired_vel = s.inertial_nav.vel]

\* ModeGuided::posvel_control_start
posvel_control_start(s, e) ==
    LET s1 == Call(Started([s EXCEPT !.guided_mode = Guided_PosVel], "posvel_control_start"),
                   "init_xy_controller")
        p == s.inertial_nav.pos
        v == s.inertial_nav.vel
    IN [s1 EXCEPT !.pos_control.max_accel_xy = WPNAV_ACCEL,
                  !.pos_control.pos_target = <<p[1], p[2], @[3]>>,
                  !.pos_control.desired_vel = <<v[1], v[2], @[3]>>,
                  !.pos_control.max_accel_z = WPNAV_ACCEL_Z,
                  !.auto_yaw = AutoYaw_set_mode(@, AUTO_YAW_HOLD)]

\* ModeGuided::angle_control_start
angle_control_start(s, e) ==
    LET s1 == Started([s EXCEPT !.guided_mode = Guided_Angle], "angle_control_start")
        s2 == [s1 EXCEPT !.pos_control.max_accel_z = WPNAV_ACCEL_Z]
        s3 == IF ~e.active_z
              THEN [s2 EXCEPT !.pos_control.pos_target[3] = s.inertial_nav.pos[3],
                              !.pos_control.desired_vel[3] = s.inertial_nav.vel[3]]
              ELSE s2
    IN [s3 EXCEPT !.guided_angle_state.update_time_ms = s.now,
                  !.guided_angle_state.roll_cd = e.ahrs[1],
                  !.guided_angle_state.pitch_cd = e.ahrs[2],
                  !.guided_angle_state.yaw_cd = e.ahrs[3],
                  !.guided_angle_state.climb_rate_cms = 0,
                  !.guided_angle_state.yaw_rate_cds = 0,
                  !.guided_angle_state.use_yaw_rate = FALSE,
                  !.auto_yaw = AutoYaw_set_mode(@, AUTO_YAW_HOLD)]

(***************************************************************************)
(* Target ingestion                                                        *)
(***************************************************************************)
\* yaw options of an ingestion call
YawOpts(use_yaw, yaw_cd, use_yaw_rate, yaw_rate_cds, relative_yaw) ==
    [use_yaw |-> use_yaw, yaw_cd |-> yaw_cd, use_yaw_rate |-> use_yaw_rate,
     yaw_rate_cds |-> yaw_rate_cds, relative_yaw |-> relative_yaw]

\* (mutation of set_yaw_state: the yaw rate is looked at first)
set_yaw_state_rate_first(s, yo) ==
    IF yo.use_yaw_rate
    THEN [s EXCEPT !.auto_yaw = AutoYaw_set_rate(@, yo.yaw_rate_cds)]
    ELSE IF yo.use_yaw
    THEN [s EXCEPT !.auto_yaw = AutoYaw_set_fixed_yaw(@, TruncDiv(yo.yaw_cd, 100), yo.relative_yaw)]
    ELSE s

\* ModeGuided::set_yaw_state; yaw_cd * 0.01f is the angle in degrees
set_yaw_state(s, yo) ==
    IF yo.use_yaw
    THEN [s EXCEPT !.auto_yaw = AutoYaw_set_fixed_yaw(@, TruncDiv(yo.yaw_cd, 100), yo.relative_yaw)]
    ELSE IF yo.use_yaw_rate
    THEN [s EXCEPT !.auto_yaw = AutoYaw_set_rate(@, yo.yaw_rate_cds)]
    ELSE s

\* (mutation of NeedsStart: the initializer is run on every call)
NeedsStart_always(s, own_mode) == TRUE

\* (mutation of NeedsStart: the initializer is never run)
NeedsStart_never(s, own_mode) == FALSE

\* the test each ingestion call makes before running its initializer
NeedsStart(s, own_mode) == s.guided_mode # own_mode

\* (mutation of RejectOutsideFence: the fence is consulted after the mode switch)
RejectOutsideFence_after_start(s, e) ==
    Return(LogError(IF s.guided_mode # Guided_WP THEN pos_control_start(s, e) ELSE s,
                    "DEST_OUTSIDE_FENCE"), "false")

\* the fence test at the top of set_destination and set_destination_posvel:
\* the state the call returns with when the destination is outside the fence
RejectOutsideFence(s, e) == Return(LogError(s, "DEST_OUTSIDE_FENCE"), "false")

\* ModeGuided::set_destination(const Vector3f&, ...)
set_destination(s0, destination, yo, terrain_alt, e) ==
    LET s == [s0 EXCEPT !.out.arg_pos = destination, !.out.use_yaw = yo.use_yaw, !.out.yaw_opts = yo,
                        !.out.use_yaw_rate = yo.use_yaw_rate, !.out.fence_ok = e.fence_ok]
    IN IF ~e.fence_ok
       THEN RejectOutsideFence(s, e)
       ELSE LET s1 == IF NeedsStart(s, Guided_WP) THEN pos_control_start(s, e) ELSE s
                s2 == set_yaw_state(s1, yo)
                s3 == [s2 EXCEPT !.wp_nav = [dest |-> destination, terrain_alt |-> terrain_alt]]
            IN Return(Call(s3, "Log_Write_GuidedTarget"), "true")

\* a Location: its offset from the EKF origin and its altitude frame
Location(vec, frame) == [vec |-> vec, frame |-> frame]

\* (mutation of RefuseDestination: the refusal is logged as a target and reported as success)
RefuseDestination_as_success(s, e) ==
    Return(Call(s, "Log_Write_GuidedTarget"), "true")

\* set_destination(const Location&): the state the call returns with when
\* wp_nav->set_wp_destination refuses the destination
RefuseDestination(s, e) == Return(LogError(s, "FAILED_TO_SET_DESTINATION"), "false")

\* ModeGuided::set_destination(const Location&, ...)
set_destination_loc(s0, dest_loc, yo, e) ==
    LET s == [s0 EXCEPT !.out.arg_pos = dest_loc.vec, !.out.use_yaw = yo.use_yaw, !.out.yaw_opts = yo,
                        !.out.use_yaw_rate = yo.use_yaw_rate, !.out.fence_ok = e.fence_ok,
                        !.out.terrain_ok = e.terrain_ok]
    IN IF ~e.fence_ok
       THEN RejectOutsideFence(s, e)
       ELSE LET s1 == IF NeedsStart(s, Guided_WP) THEN pos_control_start(s, e) ELSE s
            IN IF ~e.terrain_ok
               THEN RefuseDestination(s1, e)
               ELSE LET s2 == [s1 EXCEPT !.wp_nav = [dest |-> dest_loc.vec,
                                                     terrain_alt |-> dest_loc.frame = "ABOVE_TERRAIN"]]
                        s3 == set_yaw_state(s2, yo)
                    IN Return(Call(s3, "Log_Write_GuidedTarget"), "true")

\* ModeGuided::set_velocity
set_velocity(s0, velocity, yo, log_request, e) ==
    LET s == [s0 EXCEPT !.out.arg_vel = velocity, !.out.use_yaw = yo.use_yaw, !.out.yaw_opts = yo,
                        !.out.use_yaw_rate = yo.use_yaw_rate]
        s1 == IF NeedsStart(s, Guided_Velocity) THEN vel_control_start(s, e) ELSE s
        s2 == set_yaw_state(s1, yo)
        s3 == [s2 EXCEPT !.guided_vel_target_cms = velocity,
                         !.vel_update_time_ms = s.now]
    IN IF log_request THEN Call(s3, "Log_Write_GuidedTarget") ELSE s3

\* ModeGuided::set_destination_posvel
set_destination_posvel(s0, destination, velocity, yo, e) ==
    LET s == [s0 EXCEPT !.out.arg_pos = destination, !.out.arg_vel = velocity,
                        !.out.use_yaw = yo.use_yaw, !.out.yaw_opts = yo, !.out.use_yaw_rate = yo.use_yaw_rate,
                        !.out.fence_ok = e.fence_ok]
    IN IF ~e.fence_ok
       THEN RejectOutsideFence(s, e)
       ELSE LET s1 == IF NeedsStart(s, Guided_PosVel) THEN posvel_control_start(s, e) ELSE s
                s2 == set_yaw_state(s1, yo)
                s3 == [s2 EXCEPT !.posvel_update_time_ms = s.now,
                                 !.guided_pos_target_cm = destination,
                                 !.guided_vel_target_cms = velocity,
                                 !.pos_control.pos_target = destination]
            IN Return(Call(s3, "Log_Write_GuidedTarget"), "true")

\* ModeGuided::set_angle.  q is the attitude as q.to_euler gives it, in
\* centidegrees: <<roll, pitch, yaw>>; yaw_rate_cds is ToDeg(yaw_rate_rads)*100
\* (mutation of ThrustOrClimb: the value is stored in both fields)
ThrustOrClimb_keeps_both(use_thrust, climb_rate_cms_or_thrust) ==
    [thrust |-> climb_rate_cms_or_thrust, climb_rate_cms |-> climb_rate_cms_or_thrust]

\* set_angle: the value goes to the field use_thrust selects, the other is zeroed
ThrustOrClimb(use_thrust, climb_rate_cms_or_thrust) ==
    IF use_thrust
    THEN [thrust |-> climb_rate_cms_or_thrust, climb_rate_cms |-> 0]
    ELSE [thrust |-> 0, climb_rate_cms |-> climb_rate_cms_or_thrust]

set_angle(s0, q, climb_rate_cms_or_thrust, use_yaw_rate, yaw_rate_cds, use_thrust, e) ==
    LET s == s0
        s1 == IF NeedsStart(s, Guided_Angle) THEN angle_control_start(s, e) ELSE s
        s2 == [s1 EXCEPT !.guided_angle_state.roll_cd = q[1],
                         !.guided_angle_state.pitch_cd = q[2],
                         !.guided_angle_state.yaw_cd = wrap_180_cd(q[3]),
                         !.guided_angle_state.yaw_rate_cds = yaw_rate_cds,
                         !.guided_angle_state.use_yaw_rate = use_yaw_rate,
                         !.guided_angle_state.use_thrust = use_thrust,
                         !.guided_angle_state.thrust =
                              ThrustOrClimb(use_thrust, climb_rate_cms_or_thrust).thrust,
                         !.guided_angle_state.climb_rate_cms =
                              ThrustOrClimb(use_thrust, climb_rate_cms_or_thrust).climb_rate_cms,
                         !.guided_angle_state.update_time_ms = s.now]
    IN Call(s2, "Log_Write_GuidedTarget")

(***************************************************************************)
(* Helpers shared by the drivers                                           *)
(***************************************************************************)
THROTTLE_UNLIMITED == "THROTTLE_UNLIMITED"
GROUND_IDLE == "GROUND_IDLE"
SHUT_DOWN == "SHUT_DOWN"

\* Mode::is_disarmed_or_landed
is_disarmed_or_landed(s) ==
    ~s.motors.armed \/ ~s.ap.auto_armed \/ s.ap.land_complete

\* Mode::make_safe_spool_down: the safe spooled-down output
make_safe_spool_down(s) ==
    Call([s EXCEPT !.motors.desired_spool_state = GROUND_IDLE], "make_safe_spool_down")

\* motors->set_desired_spool_state(THROTTLE_UNLIMITED)
set_spool_unlimited(s) ==
    Call([s EXCEPT !.motors.desired_spool_state = THROTTLE_UNLIMITED],
         "set_desired_spool_state_THROTTLE_UNLIMITED")

\* set_land_complete(false)
set_land_complete_false(s) ==
    Call([s EXCEPT !.ap.land_complete = FALSE], "set_land_complete_false")

\* ModeGuided::use_pilot_yaw
use_pilot_yaw(e) == ~e.ignore_pilot_yaw

\* "process pilot's yaw input": the yaw rate the pilot asks for
PilotYawRate(e) ==
    IF ~e.failsafe_radio /\ use_pilot_yaw(e) THEN e.pilot_yaw_rate ELSE 0

\* ... and its effect on the yaw mode
PilotYaw(s, e) ==
    IF ~is_zero(PilotYawRate(e))
    THEN [s EXCEPT !.auto_yaw = AutoYaw_set_mode(@, AUTO_YAW_HOLD), !.out.pilot_yaw = TRUE]
    ELSE s

\* "call attitude controller": roll and pitch from collaborator src, yaw by yaw mode
AttitudeByYawMode(s, src, target_yaw_rate) ==
    LET y == s.auto_yaw
        cmd == IF y.mode = AUTO_YAW_HOLD
               THEN [type |-> "roll_pitch_rate_yaw", src |-> src, roll |-> 0, pitch |-> 0,
                     yaw |-> target_yaw_rate]
               ELSE IF y.mode = AUTO_YAW_RATE
               THEN [type |-> "roll_pitch_rate_yaw", src |-> src, roll |-> 0, pitch |-> 0,
                     yaw |-> y.rate_cds]
               ELSE [type |-> "roll_pitch_yaw", src |-> src, roll |-> 0, pitch |-> 0,
                     yaw |-> y.yaw_deg * 100]
    IN Call([s EXCEPT !.out.att = cmd], "attitude_control_input")

\* get_avoidance_adjusted_climbrate: the climb rate, held below the avoidance ceiling
get_avoidance_adjusted_climbrate(c, e) == Min(c, e.avoid_climb_max)

\* G_Dt * accel (G_Dt in seconds)
AccelStep(accel) == TruncDiv(G_Dt_ms * accel, 1000)

\* (mutation of LimitDeltaXY: the horizontal change is not limited)
LimitDeltaXY_unlimited(d, n2, vel_delta_xy_max) == d

\* the xy part of the limiter: the change of one component of the desired velocity
LimitDeltaXY(d, n2, vel_delta_xy_max) ==
    IF ~is_zero(n2) /\ n2 > Sq(vel_delta_xy_max)
    THEN ScaleByNorm(d, vel_delta_xy_max, n2)
    ELSE d

\* the z part of the limiter
LimitDeltaZ(d, vel_delta_z_max) == constrain_float(d, -vel_delta_z_max, vel_delta_z_max)

\* the desired velocity after the acceleration limits, before avoidance
AccelLimitedVelocity(curr_vel_des, vel_des, max_accel_xy, max_accel_z) ==
    LET vel_delta == VSub(vel_des, curr_vel_des)
        n2 == NormSqXY(vel_delta)
        mxy == AccelStep(max_accel_xy)
        mz == AccelStep(max_accel_z)
    IN <<curr_vel_des[1] + LimitDeltaXY(vel_delta[1], n2, mxy),
         curr_vel_des[2] + LimitDeltaXY(vel_delta[2], n2, mxy),
         curr_vel_des[3] + LimitDeltaZ(vel_delta[3], mz)>>

\* ModeGuided::set_desired_velocity_with_accel_and_fence_limits
set_desired_velocity_with_accel_and_fence_limits(s, vel_des, e) ==
    LET curr == s.pos_control.desired_vel
        lim == AccelLimitedVelocity(curr, vel_des, s.pos_control.max_accel_xy,
                                    s.pos_control.max_accel_z)
        adj == IF e.avoid_active THEN <<0, 0, lim[3]>> ELSE lim
        fin == <<adj[1], adj[2], get_avoidance_adjusted_climbrate(adj[3], e)>>
        s1 == [s EXCEPT !.out.vel_req = vel_des, !.out.vel_prev = curr,
                        !.out.vel_limited = lim]
    IN Call([s1 EXCEPT !.pos_control.desired_vel = fin], "accel_and_fence_limits")

(***************************************************************************)
(* Drivers                                                                 *)
(***************************************************************************)
\* Mode::auto_takeoff_run, the takeoff-ramp collaborator
auto_takeoff_run(s, e) ==
    IF ~s.motors.armed \/ ~s.ap.auto_armed
    THEN make_safe_spool_down(s)
    ELSE LET s1 == IF s.motors.spool_state = THROTTLE_UNLIMITED
                   THEN set_land_complete_false(s)
                   ELSE s
             s2 == set_spool_unlimited(s1)
         IN Call(Call(Call(s2, "update_wpnav"), "update_z_controller"),
                 "attitude_control_input")

\* ModeGuided::takeoff_run
takeoff_run(s, e) ==
    LET s1 == [auto_takeoff_run(s, e) EXCEPT !.out.reached = e.reached]
    IN IF e.reached
       THEN LET s2 == Call(s1, "retract_after_takeoff")
                target == s2.wp_nav.dest
            IN Return(set_destination(s2, target, YawOpts(FALSE, 0, FALSE, 0, FALSE),
                                      s2.wp_nav.terrain_alt, e), "void")
       ELSE s1

\* ModeGuided::pos_control_run
pos_control_run(s, e) ==
    LET s1 == PilotYaw(s, e)
    IN IF is_disarmed_or_landed(s1)
       THEN make_safe_spool_down(s1)
       ELSE LET s2 == set_spool_unlimited(s1)
                s3 == Call(Call(s2, "update_wpnav"), "update_z_controller")
            IN AttitudeByYawMode(s3, "wp_nav", PilotYawRate(e))

\* the staleness tests
VelTargetStale(tnow, update_time_ms) ==
    Gt32(Sub32(tnow, update_time_ms), U32(GUIDED_POSVEL_TIMEOUT_MS))

\* (mutation of AngleTargetStale: the attitude target times out as late as a velocity)
AngleTargetStale_late(tnow, update_time_ms) ==
    Gt32(Sub32(tnow, update_time_ms), U32(GUIDED_POSVEL_TIMEOUT_MS))

AngleTargetStale(tnow, update_time_ms) ==
    Gt32(Sub32(tnow, update_time_ms), U32(GUIDED_ATTITUDE_TIMEOUT_MS))

\* (mutation of TakeoffFromLanded: the landed flag is cleared without waiting for the motors)
TakeoffFromLanded_at_once(s) ==
    Call(set_land_complete_false(set_spool_unlimited(Call(s, "zero_throttle_and_relax_ac"))),
         "set_throttle_takeoff")

\* "landed with positive desired climb rate, initiate takeoff"
TakeoffFromLanded(s) ==
    LET s1 == set_spool_unlimited(Call(s, "zero_throttle_and_relax_ac"))
    IN IF s1.motors.spool_state = THROTTLE_UNLIMITED
       THEN Call(set_land_complete_false(s1), "set_throttle_takeoff")
       ELSE s1

\* (mutation of VelStalenessStep: a stale target is still asked for as stored)
VelStalenessStep_keeps_target(s, e) ==
    set_desired_velocity_with_accel_and_fence_limits(
        IF VelTargetStale(s.now, s.vel_update_time_ms) THEN [s EXCEPT !.out.stale = TRUE] ELSE s,
        s.guided_vel_target_cms, e)

\* vel_control_run, lines 489-500: the velocity asked of the limiter
VelStalenessStep(s, e) ==
    IF VelTargetStale(s.now, s.vel_update_time_ms)
    THEN LET s1 == [s EXCEPT !.out.stale = TRUE]
             s2 == IF s1.pos_control.desired_vel # Zero3
                   THEN set_desired_velocity_with_accel_and_fence_limits(s1, Zero3, e)
                   ELSE s1
         IN IF s2.auto_yaw.mode = AUTO_YAW_RATE
            THEN [s2 EXCEPT !.auto_yaw = AutoYaw_set_rate(@, 0)]
            ELSE s2
    ELSE set_desired_velocity_with_accel_and_fence_limits(s, s.guided_vel_target_cms, e)

\* (mutation of LandedWithClimbTarget: the arming state is not consulted)
LandedWithClimbTarget_unarmed(s) ==
    s.ap.auto_armed /\ s.ap.land_complete /\ is_positive(s.guided_vel_target_cms[3])

\* vel_control_run, line 470: "landed with positive desired climb rate"
LandedWithClimbTarget(s) ==
    /\ s.motors.armed /\ s.ap.auto_armed /\ s.ap.land_complete
    /\ is_positive(s.guided_vel_target_cms[3])

\* ModeGuided::vel_control_run
vel_control_run(s, e) ==
    LET s1 == PilotYaw(s, e)
    IN IF LandedWithClimbTarget(s1)
       THEN TakeoffFromLanded(s1)
       ELSE IF is_disarmed_or_landed(s1)
       THEN make_safe_spool_down(s1)
       ELSE LET s2 == set_spool_unlimited(s1)
                s3 == VelStalenessStep(s2, e)
                s4 == Call(s3, "update_vel_controller_xyz")
            IN AttitudeByYawMode(s4, "pos_control", PilotYawRate(e))

\* (mutation of PosVelStalenessStep: a stale target ends the posvel sub-mode)
PosVelStalenessStep_aborts(s) ==
    IF VelTargetStale(s.now, s.posvel_update_time_ms)
    THEN pos_control_start([s EXCEPT !.out.stale = TRUE], Env0)
    ELSE s

\* (mutation of PosVelStalenessStep: the stale velocity target is kept)
PosVelStalenessStep_keeps_velocity(s) ==
    IF VelTargetStale(s.now, s.posvel_update_time_ms)
    THEN LET s1 == [s EXCEPT !.out.stale = TRUE]
         IN IF s1.auto_yaw.mode = AUTO_YAW_RATE
            THEN [s1 EXCEPT !.auto_yaw = AutoYaw_set_rate(@, 0)]
            ELSE s1
    ELSE s

\* posvel_control_run, lines 542-549
PosVelStalenessStep(s) ==
    IF VelTargetStale(s.now, s.posvel_update_time_ms)
    THEN LET s1 == [s EXCEPT !.out.stale = TRUE, !.guided_vel_target_cms = Zero3]
         IN IF s1.auto_yaw.mode = AUTO_YAW_RATE
            THEN [s1 EXCEPT !.auto_yaw = AutoYaw_set_rate(@, 0)]
            ELSE s1
    ELSE s

\* (mutation of SaneDt: an interval of exactly 0.2 s is used)
SaneDt_exclusive(dt_ms) == IF dt_ms > POSVEL_DT_MAX_MS THEN 0 ELSE dt_ms

\* "sanity check dt", in milliseconds
SaneDt(dt_ms) == IF dt_ms >= POSVEL_DT_MAX_MS THEN 0 ELSE dt_ms

\* guided_vel_target_cms * dt
VelTimesDt(v, dt_ms) ==
    <<TruncDiv(v[1] * dt_ms, 1000), TruncDiv(v[2] * dt_ms, 1000), TruncDiv(v[3] * dt_ms, 1000)>>

\* ModeGuided::posvel_control_run
posvel_control_run(s, e) ==
    LET s1 == PilotYaw(s, e)
    IN IF is_disarmed_or_landed(s1)
       THEN make_safe_spool_down(s1)
       ELSE LET s2 == set_spool_unlimited(s1)
                s3 == PosVelStalenessStep(s2)
                dt == SaneDt(e.dt_ms)
                p == VAdd(s3.guided_pos_target_cm, VelTimesDt(s3.guided_vel_target_cms, dt))
                v == s3.guided_vel_target_cms
                s4 == [s3 EXCEPT !.guided_pos_target_cm = p,
                                 !.out.dt_ms = e.dt_ms,
                                 !.pos_control.pos_target = p,
                                 !.pos_control.desired_vel = <<v[1], v[2], @[3]>>]
                s5 == Call(Call(s4, "update_xy_controller"), "update_z_controller")
            IN AttitudeByYawMode(s5, "pos_control", PilotYawRate(e))

\* angle_control_run, lines 587-596: one lean angle after the lean limit
ConstrainLean(a, roll_in, pitch_in, angle_max) ==
    LET n2 == Sq(roll_in) + Sq(pitch_in)
    IN IF n2 > Sq(angle_max) THEN ScaleByNorm(a, angle_max, n2) ELSE a

\* (mutation of PositiveThrustOrClimbrate: the stored climb rate is tested)
PositiveThrustOrClimbrate_stored(g, climb_rate_cms) ==
    is_positive(IF g.use_thrust THEN g.thrust ELSE g.climb_rate_cms)

\* angle_control_run, line 622: "interpret positive climb rate or thrust as
\* triggering take-off"
PositiveThrustOrClimbrate(g, climb_rate_cms) ==
    is_positive(IF g.use_thrust THEN g.thrust ELSE climb_rate_cms)

\* ModeGuided::angle_control_run
angle_control_run(s, e) ==
    LET g == s.guided_angle_state
        stale == AngleTargetStale(s.now, g.update_time_ms)
        roll_in == IF stale THEN 0 ELSE ConstrainLean(g.roll_cd, g.roll_cd, g.pitch_cd, ANGLE_MAX)
        pitch_in == IF stale THEN 0 ELSE ConstrainLean(g.pitch_cd, g.roll_cd, g.pitch_cd, ANGLE_MAX)
        yaw_in == wrap_180_cd(g.yaw_cd)
        yaw_rate_in == IF stale THEN 0 ELSE wrap_180_cd(g.yaw_rate_cds)
        climb0 == IF ~g.use_thrust
                  THEN get_avoidance_adjusted_climbrate(
                           constrain_float(g.climb_rate_cms, -Abs(WPNAV_SPEED_DN), WPNAV_SPEED_UP), e)
                  ELSE 0
        climb_rate_cms == IF stale THEN 0 ELSE climb0
        sa == [s EXCEPT !.out.avoided = climb0]
        s1 == IF stale
              THEN [sa EXCEPT !.out.stale = TRUE, !.guided_angle_state.use_thrust = FALSE]
              ELSE sa
        g1 == s1.guided_angle_state
        positive_thrust_or_climbrate == PositiveThrustOrClimbrate(g1, climb_rate_cms)
        s2 == IF s1.motors.armed /\ positive_thrust_or_climbrate
              THEN Call([s1 EXCEPT !.ap.auto_armed = TRUE], "set_auto_armed")
              ELSE s1
    IN IF ~s2.motors.armed \/ ~s2.ap.auto_armed
          \/ (s2.ap.land_complete /\ ~positive_thrust_or_climbrate)
       THEN make_safe_spool_down(s2)
       ELSE IF s2.ap.land_complete /\ g1.climb_rate_cms > 0
       THEN TakeoffFromLanded(s2)
       ELSE LET s3 == set_spool_unlimited(s2)
                cmd == IF g1.use_yaw_rate
                       THEN [type |-> "roll_pitch_rate_yaw", src |-> "target",
                             roll |-> roll_in, pitch |-> pitch_in, yaw |-> yaw_rate_in]
                       ELSE [type |-> "roll_pitch_yaw", src |-> "target",
                             roll |-> roll_in, pitch |-> pitch_in, yaw |-> yaw_in]
                s4 == Call([s3 EXCEPT !.out.att = cmd], "attitude_control_input")
            IN IF g1.use_thrust
               THEN Call([s4 EXCEPT !.out.throttle_out = g1.thrust], "set_throttle_out")
               ELSE Call(Call([s4 EXCEPT !.out.climb = climb_rate_cms],
                              "set_alt_target_from_climb_rate_ff"), "update_z_controller")

\* ModeGuided::circle_run
circle_run(s, e) ==
    LET s1 == Call(Call(s, "circle_nav_update"), "update_z_controller")
        cmd == [type |-> "roll_pitch_yaw",
                src |-> IF s1.auto_yaw.mode = AUTO_YAW_HOLD THEN "circle_nav" ELSE "circle_nav_auto_yaw",
                roll |-> 0, pitch |-> 0, yaw |-> s1.auto_yaw.yaw_deg * 100]
    IN Call([s1 EXCEPT !.out.att = cmd], "attitude_control_input")

\* (mutation of DriverOf: CircleMoveToEdge has no case in the switch)
DriverOf_edge_undriven(mode) ==
    CASE mode = Guided_TakeOff -> "takeoff_run"
      [] mode = Guided_WP -> "pos_control_run"
      [] mode = Guided_Velocity -> "vel_control_run"
      [] mode = Guided_PosVel -> "posvel_control_run"
      [] mode = Guided_Angle -> "angle_control_run"
      [] mode = Guided_Circle -> "circle_run"
      [] OTHER -> "none"

\* the driver run() selects
DriverOf(mode) ==
    CASE mode = Guided_TakeOff -> "takeoff_run"
      [] mode \in {Guided_WP, Guided_CircleMoveToEdge} -> "pos_control_run"
      [] mode = Guided_Velocity -> "vel_control_run"
      [] mode = Guided_PosVel -> "posvel_control_run"
      [] mode = Guided_Angle -> "angle_control_run"
      [] mode = Guided_Circle -> "circle_run"
      [] OTHER -> "none"

\* ModeGuided::run
run(s0, e) ==
    LET d == DriverOf(s0.guided_mode)
        s == [s0 EXCEPT !.out.driver = d]
    IN CASE d = "takeoff_run" -> takeoff_run(s, e)
         [] d = "pos_control_run" -> pos_control_run(s, e)
         [] d = "vel_control_run" -> vel_control_run(s, e)
         [] d = "posvel_control_run" -> posvel_control_run(s, e)
         [] d = "angle_control_run" -> angle_control_run(s, e)
         [] d = "circle_run" -> circle_run(s, e)
         [] OTHER -> s

(***************************************************************************)
(* Take-off request and mode entry                                         *)
(***************************************************************************)
\* ModeGuided::init
init(s, e) == Return(pos_control_start(s, e), "true")

\* ModeGuided::do_user_takeoff_start
do_user_takeoff_start(s0, takeoff_alt_cm, e) ==
    LET s == [s0 EXCEPT !.guided_mode = Guided_TakeOff]
        use_rangefinder == e.rangefinder_ok /\ takeoff_alt_cm < e.rangefinder_max_cm
        p == s.inertial_nav.pos
    IN IF use_rangefinder /\ takeoff_alt_cm <= e.rangefinder_alt_cm
       THEN Return(s, "false")
       ELSE IF ~e.terrain_ok
       THEN Return(LogError(s, "FAILED_TO_SET_DESTINATION"), "false")
       ELSE LET s1 == [s EXCEPT !.wp_nav = [dest |-> <<p[1], p[2], takeoff_alt_cm>>,
                                            terrain_alt |-> use_rangefinder],
                                !.auto_yaw = AutoYaw_set_mode(@, AUTO_YAW_HOLD)]
            IN Return(Call(Call(s1, "set_throttle_takeoff"), "auto_takeoff_set_start_alt"),
                      "true")

(***************************************************************************)
(* Guided limits                                                           *)
(***************************************************************************)
\* (mutation of limit_clear: the reference time and position are cleared too)
limit_clear_and_start(s) ==
    [s EXCEPT !.guided_limit = [timeout_ms |-> U32(0), alt_min_cm |-> 0, alt_max_cm |-> 0,
                                horiz_max_cm |-> 0, start_time |-> U32(0),
                                start_pos |-> Zero3]]

\* ModeGuided::limit_clear
limit_clear(s) ==
    [s EXCEPT !.guided_limit.timeout_ms = U32(0),
              !.guided_limit.alt_min_cm = 0,
              !.guided_limit.alt_max_cm = 0,
              !.guided_limit.horiz_max_cm = 0]

\* ModeGuided::limit_set
limit_set(s, timeout_ms, alt_min_cm, alt_max_cm, horiz_max_cm) ==
    [s EXCEPT !.guided_limit.timeout_ms = timeout_ms,
              !.guided_limit.alt_min_cm = alt_min_cm,
              !.guided_limit.alt_max_cm = alt_max_cm,
              !.guided_limit.horiz_max_cm = horiz_max_cm]

\* ModeGuided::limit_init_time_and_pos
limit_init_time_and_pos(s) ==
    [s EXCEPT !.guided_limit.start_time = s.now,
              !.guided_limit.start_pos = s.inertial_nav.pos]

\* (mutation of LimitTimedOut: the timeout is exclusive)
LimitTimedOut_exclusive(lim, tnow) ==
    Gt32(lim.timeout_ms, U32(0)) /\ Gt32(Sub32(tnow, lim.start_time), lim.timeout_ms)

\* the four tests of limit_check
LimitTimedOut(lim, tnow) ==
    Gt32(lim.timeout_ms, U32(0)) /\ Ge32(Sub32(tnow, lim.start_time), lim.timeout_ms)

LimitBelowMinAlt(lim, curr_pos) ==
    ~is_zero(lim.alt_min_cm) /\ curr_pos[3] < lim.alt_min_cm

LimitAboveMaxAlt(lim, curr_pos) ==
    ~is_zero(lim.alt_max_cm) /\ curr_pos[3] > lim.alt_max_cm

\* (mutation of LimitBeyondHoriz: a zero horiz_max_cm is not taken as disabled)
LimitBeyondHoriz_unguarded(lim, curr_pos) ==
    NormSqXY(VSub(curr_pos, lim.start_pos)) > Sq(lim.horiz_max_cm)

\* get_horizontal_distance_cm(start_pos, curr_pos) > horiz_max_cm, for horiz_max_cm > 0
LimitBeyondHoriz(lim, curr_pos) ==
    lim.horiz_max_cm > 0
    /\ NormSqXY(VSub(curr_pos, lim.start_pos)) > Sq(lim.horiz_max_cm)

\* the value ModeGuided::limit_check returns
LimitBreached(lim, tnow, curr_pos) ==
    \/ LimitTimedOut(lim, tnow)
    \/ LimitBelowMinAlt(lim, curr_pos)
    \/ LimitAboveMaxAlt(lim, curr_pos)
    \/ LimitBeyondHoriz(lim, curr_pos)

\* ModeGuided::limit_check
limit_check(s) ==
    Return(s, IF LimitBreached(s.guided_limit, s.now, s.inertial_nav.pos)
              THEN "true" ELSE "false")

(***************************************************************************)
(* Circle and mission commands                                             *)
(***************************************************************************)
\* a mission command: id, location (with lat/lng and alt given or zero),
\* radius in metres (high byte of p1), turns (low byte of p1)
MissionCommand(id, loc, has_latlng, has_alt, radius_m, turns) ==
    [id |-> id, location |-> loc, has_latlng |-> has_latlng, has_alt |-> has_alt,
     radius_m |-> radius_m, turns |-> turns]

\* ModeGuided::loc_from_cmd
loc_from_cmd(s, cmd) ==
    LET c == cmd.location.vec
        p == s.inertial_nav.pos
    IN Location(<<IF cmd.has_latlng THEN c[1] ELSE p[1],
                  IF cmd.has_latlng THEN c[2] ELSE p[2],
                  IF cmd.has_alt THEN c[3] ELSE p[3]>>, cmd.location.frame)

\* (mutation of circle_start: the yaw mode is set to hold whatever it was)
circle_start_resets_yaw(s) ==
    LET s1 == Call(Started([s EXCEPT !.guided_mode = Guided_Circle], "circle_start"),
                   "circle_nav_init")
    IN [s1 EXCEPT !.auto_yaw = AutoYaw_set_mode(@, AUTO_YAW_HOLD)]

\* ModeGuided::circle_start
circle_start(s) ==
    LET s1 == Call(Started([s EXCEPT !.guided_mode = Guided_Circle], "circle_start"),
                   "circle_nav_init")
    IN IF s1.auto_yaw.mode # AUTO_YAW_ROI
       THEN [s1 EXCEPT !.auto_yaw = AutoYaw_set_mode(@, AUTO_YAW_HOLD)]
       ELSE s1

\* (mutation of FarFromEdge: exactly 3m counts as far)
FarFromEdge_inclusive(curr_pos, circle_edge_neu) ==
    LengthSq(VSub(curr_pos, circle_edge_neu)) >= Sq(CIRCLE_EDGE_DIST_CM)

\* "if more than 3m then fly to edge"
FarFromEdge(curr_pos, circle_edge_neu) ==
    LengthSq(VSub(curr_pos, circle_edge_neu)) > Sq(CIRCLE_EDGE_DIST_CM)

\* ModeGuided::circle_movetoedge_start
circle_movetoedge_start(s0, circle_center, radius_m, e) ==
    LET s == Started(s0, "circle_movetoedge_start")
        p == s.inertial_nav.pos
        circle_center_neu == IF e.center_ok THEN circle_center.vec ELSE p
        s1 == IF e.center_ok THEN s ELSE LogError(s, "FAILED_CIRCLE_INIT")
        s2 == [s1 EXCEPT !.circle_nav.center = circle_center_neu,
                         !.circle_nav.radius = IF ~is_zero(radius_m) THEN radius_m * 100 ELSE @,
                         !.out.edge = e.edge]
    IN IF FarFromEdge(p, e.edge)
       THEN LET s3 == [s2 EXCEPT !.guided_mode = Guided_CircleMoveToEdge]
                s4 == IF e.terrain_ok
                      THEN [s3 EXCEPT !.wp_nav = [dest |-> <<e.edge[1], e.edge[2], circle_center.vec[3]>>,
                                                  terrain_alt |-> circle_center.frame = "ABOVE_TERRAIN"]]
                      ELSE Call(s3, "failsafe_terrain_on_event")
                d2 == Sq(circle_center_neu[1] - p[1]) + Sq(circle_center_neu[2] - p[2])
            IN IF s4.auto_yaw.mode # AUTO_YAW_ROI
               THEN IF d2 > Sq(s4.circle_nav.radius) /\ d2 > Sq(CIRCLE_CENTER_DIST_CM)
                    THEN [s4 EXCEPT !.auto_yaw = AutoYaw_set_mode(@, e.default_yaw)]
                    ELSE [s4 EXCEPT !.auto_yaw = AutoYaw_set_mode(@, AUTO_YAW_HOLD)]
               ELSE s4
       ELSE circle_start(s2)

\* ModeGuided::do_circle
do_circle(s, cmd, e) ==
    circle_movetoedge_start([s EXCEPT !.out.cmd = cmd.id], loc_from_cmd(s, cmd), cmd.radius_m, e)

\* ModeGuided::start_command: the dispatch is commented out
start_command(s, cmd) == Return([s EXCEPT !.out.cmd = cmd.id], "true")

\* ModeGuided::verify_circle
verify_circle(s, cmd, e) ==
    IF s.guided_mode = Guided_CircleMoveToEdge
    THEN LET s1 == [s EXCEPT !.out.reached = e.reached]
         IN IF e.reached
            THEN IF ~e.center_ok
                 THEN Return([s1 EXCEPT !.out.center_ok = FALSE], "true")
                 ELSE Return(circle_start(s1), "false")
            ELSE Return(s1, "false")
    ELSE Return(s, IF e.turns_done >= cmd.turns THEN "true" ELSE "false")

\* (mutation of SkipInvalidCommand: an unrecognised command is not complete)
SkipInvalidCommand_incomplete(s) ==
    Return(Call(s, "send_text_skipping_invalid_cmd"), "false")

\* verify_command, lines 1001-1006: "return true if we do not recognize the command"
SkipInvalidCommand(s) == Return(Call(s, "send_text_skipping_invalid_cmd"), "true")

\* ModeGuided::verify_command
verify_command(s0, cmd, e) ==
    LET s == [s0 EXCEPT !.out.cmd = cmd.id, !.out.in_guided = e.in_guided]
    IN IF ~e.in_guided
       THEN Return(Call(s, "not_in_guided"), "false")
       ELSE LET s1 == IF cmd.id = MAV_CMD_NAV_LOITER_TURNS
                      THEN verify_circle(s, cmd, e)
                      ELSE SkipInvalidCommand(s)
            IN IF s1.out.ret = "true"
               THEN Call(s1, "send_mission_item_reached_message")
               ELSE s1

(***************************************************************************)
(* Initial state: the statics zero-initialised, the vehicle on the ground  *)
(* and disarmed, and ModeGuided::init called once on entry to the mode.    *)
(***************************************************************************)
\* millis() at entry: 1500 ms before the 32 bit counter wraps
StartTime == <<WORD - 1, WORD - 1500>>

\* AC_Circle's radius before any set_radius, cm
CIRCLE_RADIUS_DEFAULT == 1000

\* no ingestion call is in progress
NoIngest == [pc |-> "idle", destination |-> Zero3, velocity |-> Zero3]

Constructed ==
    [guided_mode |-> Guided_TakeOff,
     guided_pos_target_cm |-> Zero3,
     guided_vel_target_cms |-> Zero3,
     posvel_update_time_ms |-> U32(0),
     vel_update_time_ms |-> U32(0),
     guided_angle_state |-> [update_time_ms |-> U32(0), roll_cd |-> 0, pitch_cd |-> 0, yaw_cd |-> 0,
                             yaw_rate_cds |-> 0, climb_rate_cms |-> 0, thrust |-> 0,
                             use_yaw_rate |-> FALSE, use_thrust |-> FALSE],
     guided_limit |-> [timeout_ms |-> U32(0), alt_min_cm |-> 0, alt_max_cm |-> 0,
                       horiz_max_cm |-> 0, start_time |-> U32(0), start_pos |-> Zero3],
     auto_yaw |-> YawState(AUTO_YAW_HOLD, 0, 0, FALSE),
     wp_nav |-> [dest |-> Zero3, terrain_alt |-> FALSE],
     pos_control |-> [pos_target |-> Zero3, desired_vel |-> Zero3,
                      max_accel_xy |-> WPNAV_ACCEL, max_accel_z |-> WPNAV_ACCEL_Z],
     circle_nav |-> [center |-> Zero3, radius |-> CIRCLE_RADIUS_DEFAULT],
     motors |-> [armed |-> FALSE, desired_spool_state |-> SHUT_DOWN, spool_state |-> SHUT_DOWN],
     ap |-> [auto_armed |-> FALSE, land_complete |-> TRUE],
     inertial_nav |-> [pos |-> Zero3, vel |-> Zero3],
     now |-> StartTime,
     ingest |-> NoIngest,
     out |-> NoOut]

Entered == init(Begin(Constructed, "init"), Env0)

Init ==
    /\ guided_mode = Entered.guided_mode
    /\ guided_pos_target_cm = Entered.guided_pos_target_cm
    /\ guided_vel_target_cms = Entered.guided_vel_target_cms
    /\ posvel_update_time_ms = Entered.posvel_update_time_ms
    /\ vel_update_time_ms = Entered.vel_update_time_ms
    /\ guided_angle_state = Entered.guided_angle_state
    /\ guided_limit = Entered.guided_limit
    /\ auto_yaw = Entered.auto_yaw
    /\ wp_nav = Entered.wp_nav
    /\ pos_control = Entered.pos_control
    /\ circle_nav = Entered.circle_nav
    /\ motors = Entered.motors
    /\ ap = Entered.ap
    /\ inertial_nav = Entered.inertial_nav
    /\ now = Entered.now
    /\ ingest = Entered.ingest
    /\ out = Entered.out

(***************************************************************************)
(* Actions: one per externally callable method, and the environment        *)
(***************************************************************************)
\* an event of the environment: it is no call, so it leaves no call record
Env(s) == Apply([s EXCEPT !.out = [NoOut EXCEPT !.op = "env"]])

\* the clock advances by d milliseconds
AdvanceTime(d) ==
    /\ Ge32(U32(MaxElapsed), Add32(Sub32(now, StartTime), d))
    /\ Env([S EXCEPT !.now = Add32(now, d)])

\* arming, the land detector, auto-arming and the motors' spool logic
SetVehicle(v) ==
    /\ v # [armed |-> motors.armed, auto_armed |-> ap.auto_armed,
            land_complete |-> ap.land_complete, spool_state |-> motors.spool_state]
    /\ Env([S EXCEPT !.motors.armed = v.armed, !.motors.spool_state = v.spool_state,
                     !.ap.auto_armed = v.auto_armed, !.ap.land_complete = v.land_complete])

\* the motors reach the spool state the mode asked for
SpoolUp ==
    /\ motors.desired_spool_state = THROTTLE_UNLIMITED
    /\ motors.spool_state # THROTTLE_UNLIMITED
    /\ Env([S EXCEPT !.motors.spool_state = THROTTLE_UNLIMITED])

\* the vehicle moves: a new position and velocity estimate
Move(p, v) ==
    /\ inertial_nav # [pos |-> p, vel |-> v]
    /\ Env([S EXCEPT !.inertial_nav = [pos |-> p, vel |-> v]])

\* a region of interest is set from outside the mode (auto_yaw.set_roi)
SetROI ==
    /\ auto_yaw.mode # AUTO_YAW_ROI
    /\ Env([S EXCEPT !.auto_yaw = YawState(AUTO_YAW_ROI, 0, 0, FALSE)])

Enter(e) == Apply(init(Begin(S, "init"), e))

DoUserTakeoffStart(takeoff_alt_cm, e) ==
    Apply(do_user_takeoff_start(Begin(S, "do_user_takeoff_start"), takeoff_alt_cm, e))

SetDestination(destination, yo, terrain_alt, e) ==
    Apply(set_destination(Begin(S, "set_destination"), destination, yo, terrain_alt, e))

SetDestinationLoc(dest_loc, yo, e) ==
    Apply(set_destination_loc(Begin(S, "set_destination_loc"), dest_loc, yo, e))

SetVelocity(velocity, yo, log_request, e) ==
    Apply(set_velocity(Begin(S, "set_velocity"), velocity, yo, log_request, e))

SetDestinationPosVel(destination, velocity, yo, e) ==
    Apply(set_destination_posvel(Begin(S, "set_destination_posvel"), destination, velocity, yo, e))

SetAngle(q, climb_rate_cms_or_thrust, use_yaw_rate, yaw_rate_cds, use_thrust, e) ==
    Apply(set_angle(Begin(S, "set_angle"), q, climb_rate_cms_or_thrust, use_yaw_rate,
                    yaw_rate_cds, use_thrust, e))

Run(e) == Apply(run(Begin(S, "run"), e))

LimitClear == Apply(limit_clear(Begin(S, "limit_clear")))

LimitSet(timeout_ms, alt_min_cm, alt_max_cm, horiz_max_cm) ==
    Apply(limit_set(Begin(S, "limit_set"), timeout_ms, alt_min_cm, alt_max_cm, horiz_max_cm))

LimitInitTimeAndPos == Apply(limit_init_time_and_pos(Begin(S, "limit_init_time_and_pos")))

LimitCheck == Apply(limit_check(Begin(S, "limit_check")))

DoCircle(cmd, e) == Apply(do_circle(Begin(S, "do_circle"), cmd, e))

StartCommand(cmd) == Apply(start_command(Begin(S, "start_command"), cmd))

VerifyCommand(cmd, e) == Apply(verify_command(Begin(S, "verify_command"), cmd, e))

(***************************************************************************)
(* Input domains                                                           *)
(***************************************************************************)
PosA == <<1000, 0, 500>>
PosB == <<180, 240, 99>>

VelA == <<6, 8, 4>>
VelB == <<0, -5, -3>>
VelFast == <<30, 40, 20>>

YawRateIn == 15 * 100
YawIn == 90 * 100

NoYaw == YawOpts(FALSE, 0, FALSE, 0, FALSE)

YawOptSet == {NoYaw,
              YawOpts(TRUE, YawIn, FALSE, 0, TRUE),
              YawOpts(TRUE, YawIn, TRUE, YawRateIn, FALSE),
              YawOpts(FALSE, 0, TRUE, YawRateIn, FALSE)}

\* what a call that may run pos_control_start reads
EnvStart == {[Env0 EXCEPT !.default_yaw = d] : d \in DefaultYawModes}

\* ... with the fence's answer
EnvFence == {[Env0 EXCEPT !.fence_ok = f] : f \in BOOLEAN}

\* ... and with wp_nav's answer on terrain data
EnvFenceTerrain == {[e EXCEPT !.terrain_ok = tr] : e \in EnvFence, tr \in BOOLEAN}

\* what do_user_takeoff_start reads
EnvTakeoff == {[Env0 EXCEPT !.terrain_ok = tr, !.rangefinder_ok = rf, !.rangefinder_alt_cm = a] :
                  tr \in BOOLEAN, rf \in BOOLEAN, a \in {0, 500}}

\* what a tick reads
EnvTick == {[Env0 EXCEPT !.reached = r, !.pilot_yaw_rate = y, !.dt_ms = dt, !.fence_ok = f] :
               r \in BOOLEAN, y \in {0, 500}, dt \in {100, 200}, f \in BOOLEAN}

\* what a circle command reads
EnvCircle == {[Env0 EXCEPT !.edge = g, !.center_ok = c, !.terrain_ok = tr] :
                 g \in {<<0, 0, 0>>, <<180, 240, 0>>, <<301, 0, 0>>},
                 c \in BOOLEAN, tr \in BOOLEAN}

EnvVerify == {[Env0 EXCEPT !.reached = r, !.center_ok = c, !.in_guided = g, !.turns_done = n] :
                 r \in BOOLEAN, c \in BOOLEAN, g \in BOOLEAN, n \in {0, 2}}

LoiterTurns == MissionCommand(MAV_CMD_NAV_LOITER_TURNS, Location(PosA, "ABOVE_HOME"), TRUE, TRUE, 5, 2)
OtherCommand == MissionCommand(MAV_CMD_NAV_WAYPOINT, Location(PosA, "ABOVE_HOME"), TRUE, TRUE, 0, 0)

Commands == {LoiterTurns, OtherCommand}

Vehicle(a, aa, lc, sp) ==
    [armed |-> a, auto_armed |-> aa, land_complete |-> lc, spool_state |-> sp]

VehicleStates == {Vehicle(FALSE, FALSE, TRUE, SHUT_DOWN),
                  Vehicle(FALSE, TRUE, TRUE, GROUND_IDLE),
                  Vehicle(TRUE, FALSE, TRUE, GROUND_IDLE),
                  Vehicle(TRUE, TRUE, TRUE, GROUND_IDLE),
                  Vehicle(TRUE, TRUE, TRUE, THROTTLE_UNLIMITED),
                  Vehicle(TRUE, TRUE, FALSE, THROTTLE_UNLIMITED),
                  Vehicle(FALSE, TRUE, FALSE, THROTTLE_UNLIMITED)}

(***************************************************************************)
(* Spec: target ingestion and sub-mode selection.  Every sub-mode is       *)
(* entered, and every ingestion call is made from every sub-mode, with the *)
(* fence accepting and rejecting.                                          *)
(***************************************************************************)
RateOnly == YawOpts(FALSE, 0, TRUE, YawRateIn, FALSE)

Next ==
    \/ \E e \in EnvStart : Enter(e)
    \/ SetROI
    \/ AdvanceTime(4004)
    \/ \E yo \in YawOptSet, e \in EnvFence : SetDestination(PosA, yo, FALSE, e)
    \/ \E yo \in {NoYaw, RateOnly}, e \in EnvFenceTerrain :
          SetDestinationLoc(Location(PosB, "ABOVE_TERRAIN"), yo, e)
    \/ \E yo \in {NoYaw, RateOnly} : SetVelocity(VelA, yo, TRUE, Env0)
    \/ \E yo \in {NoYaw, RateOnly}, e \in EnvFence : SetDestinationPosVel(PosB, VelFast, yo, e)
    \/ SetAngle(<<3000, 4000, 27000>>, 500, TRUE, 20000, TRUE, Env0)
    \/ \E g \in {<<0, 0, 0>>, <<301, 0, 0>>} : DoCircle(LoiterTurns, [Env0 EXCEPT !.edge = g])
    \/ \E tr \in BOOLEAN : DoUserTakeoffStart(500, [Env0 EXCEPT !.terrain_ok = tr])
    \/ \E c \in Commands : StartCommand(c)

Spec == Init /\ [][Next]_vars

IngestionOps == {"set_destination", "set_destination_loc", "set_velocity",
                 "set_destination_posvel", "set_angle"}

FencedOps == {"set_destination", "set_destination_loc", "set_destination_posvel"}

\* the sub-mode an ingestion call selects and the initializer that enters it
OwnMode(op) ==
    CASE op \in {"set_destination", "set_destination_loc"} -> Guided_WP
      [] op = "set_velocity" -> Guided_Velocity
      [] op = "set_destination_posvel" -> Guided_PosVel
      [] op = "set_angle" -> Guided_Angle

OwnStart(op) ==
    CASE op \in {"set_destination", "set_destination_loc"} -> "pos_control_start"
      [] op = "set_velocity" -> "vel_control_start"
      [] op = "set_destination_posvel" -> "posvel_control_start"
      [] op = "set_angle" -> "angle_control_start"

\* C1: a destination the fence rejects makes set_destination (both forms) and
\* set_destination_posvel return failure with the sub-mode, the targets, their
\* time stamps, the angle target, the yaw state and the destinations held by
\* wp_nav and pos_control all as they were before the call.
C1_RejectionMutatesNothing ==
    [][(out'.op \in FencedOps /\ ~out'.fence_ok)
       => /\ out'.ret = "false"
          /\ UNCHANGED <<guided_mode, guided_pos_target_cm, guided_vel_target_cms,
                         posvel_update_time_ms, vel_update_time_ms, guided_angle_state,
                         auto_yaw, wp_nav, pos_control>>]_vars

\* a posvel destination was rejected while the velocity sub-mode was active
C1_Witness ==
    /\ out.op = "set_destination_posvel" /\ ~out.fence_ok /\ out.ret = "false"
    /\ guided_mode = Guided_Velocity
    /\ auto_yaw.mode = AUTO_YAW_RATE

\* C2 as amended: an ingestion call the fence does not reject runs its mode
\* initializer exactly when the sub-mode differs from the call's own; and an
\* accepted set_destination with use_yaw and use_yaw_rate both false, made in
\* Waypoint, runs no initializer and leaves the yaw state as it was.
C2_StartIffModeDiffers ==
    [][/\ (out'.op \in IngestionOps /\ out'.fence_ok)
          => out'.started = IF guided_mode # OwnMode(out'.op)
                            THEN <<OwnStart(out'.op)>> ELSE <<>>
       /\ (/\ out'.op \in {"set_destination", "set_destination_loc"}
           /\ out'.ret = "true" /\ guided_mode = Guided_WP
           /\ ~out'.use_yaw /\ ~out'.use_yaw_rate)
          => (out'.started = <<>> /\ auto_yaw' = auto_yaw)]_vars

\* set_destination without yaw options was accepted in Waypoint while the yaw
\* state was a fixed angle
C2_Witness ==
    /\ out.op = "set_destination" /\ out.ret = "true" /\ out.started = <<>>
    /\ ~out.use_yaw /\ ~out.use_yaw_rate
    /\ auto_yaw.mode = AUTO_YAW_FIXED

\* C2 as stated: every ingestion call, rejected or not, runs its initializer
\* exactly when the sub-mode differs
C2_Original ==
    [][(out'.op \in IngestionOps)
       => out'.started = IF guided_mode # OwnMode(out'.op)
                         THEN <<OwnStart(out'.op)>> ELSE <<>>]_vars

\* C3: when the call returns, set_velocity has left the sub-mode at Velocity
\* with the supplied velocity stored and stamped with the current time,
\* set_angle has left it at Angle, an accepted set_destination at Waypoint, an
\* accepted set_destination_posvel at PositionVelocity with the supplied pair
\* stored; set_velocity and set_angle report no failure.
C3_IngestionSelectsMode ==
    /\ out.op = "set_velocity"
       => /\ guided_mode = Guided_Velocity
          /\ guided_vel_target_cms = out.arg_vel
          /\ vel_update_time_ms = now
          /\ out.ret = "void" /\ out.err = "none"
    /\ out.op = "set_angle"
       => guided_mode = Guided_Angle /\ out.ret = "void" /\ out.err = "none"
    /\ (out.op \in {"set_destination", "set_destination_loc"} /\ out.ret = "true")
       => guided_mode = Guided_WP
    /\ (out.op = "set_destination_posvel" /\ out.ret = "true")
       => /\ guided_mode = Guided_PosVel
          /\ guided_pos_target_cm = out.arg_pos
          /\ guided_vel_target_cms = out.arg_vel

\* set_velocity was called after a circle command and after the clock moved
C3_Witness ==
    /\ out.op = "set_velocity" /\ out.started = <<"vel_control_start">>
    /\ circle_nav.center = PosA
    /\ now # StartTime

\* C10 as stated: start_command with a loiter-turns command leaves the sub-mode
\* at CircleMoveToEdge or Circle and the circle's center and radius with
\* circle_nav.
C10_StartCommandStartsCircle ==
    (out.op = "start_command" /\ out.cmd = MAV_CMD_NAV_LOITER_TURNS)
    => /\ guided_mode \in {Guided_Circle, Guided_CircleMoveToEdge}
       /\ circle_nav.center = LoiterTurns.location.vec
       /\ circle_nav.radius = LoiterTurns.radius_m * 100

(***************************************************************************)
(* SpecLimit: the guided limits, set, cleared, initialised and checked     *)
(* while the clock runs, the vehicle moves, and targets and ticks arrive.  *)
(***************************************************************************)
\* limit_set arguments: timeout_ms, alt_min_cm, alt_max_cm, horiz_max_cm
LimitConfigs == {<<0, 0, 0, 0>>,
                 <<2002, 0, 0, 0>>,
                 <<0, 100, 0, 0>>, <<0, -50, 0, 0>>,
                 <<0, 0, 150, 0>>, <<0, 0, -20, 0>>,
                 <<0, 0, 0, 300>>, <<0, 0, 0, -300>>,
                 <<2002, 100, 150, 300>>}

\* positions: the origin; 300 cm away at 99 cm height; 301 cm away above 150 cm;
\* below the origin
LimitPositions == {Zero3, <<180, 240, 99>>, <<301, 0, 151>>, <<0, 0, -60>>}

NextLimit ==
    \/ LimitClear
    \/ \E c \in LimitConfigs : LimitSet(U32(c[1]), c[2], c[3], c[4])
    \/ LimitInitTimeAndPos
    \/ LimitCheck
    \/ AdvanceTime(2002)
    \/ \E p \in LimitPositions : Move(p, Zero3)
    \/ \E e \in {[Env0 EXCEPT !.fence_ok = f] : f \in BOOLEAN} : SetDestination(PosA, NoYaw, FALSE, e)
    \/ Run(Env0)

SpecLimit == Init /\ [][NextLimit]_vars

\* the squared horizontal distance from the limits' start position
HorizDistSq == Sq(inertial_nav.pos[1] - guided_limit.start_pos[1])
               + Sq(inertial_nav.pos[2] - guided_limit.start_pos[2])

\* C7 as amended: limit_check returns true exactly when the timeout is
\* non-zero and the time since start_time is at least the timeout, or alt_min
\* is non-zero and the altitude is below it, or alt_max is non-zero and the
\* altitude is above it, or horiz_max is greater than zero and the horizontal
\* distance from start_pos exceeds it; negative altitude thresholds are live.
C7_LimitCheckCharacterised ==
    out.op = "limit_check"
    => (out.ret = "true"
        <=> \/ /\ guided_limit.timeout_ms # U32(0)
               /\ Ge32(Sub32(now, guided_limit.start_time), guided_limit.timeout_ms)
            \/ guided_limit.alt_min_cm # 0 /\ inertial_nav.pos[3] < guided_limit.alt_min_cm
            \/ guided_limit.alt_max_cm # 0 /\ inertial_nav.pos[3] > guided_limit.alt_max_cm
            \/ guided_limit.horiz_max_cm > 0 /\ HorizDistSq > Sq(guided_limit.horiz_max_cm))

\* limit_check returned true on a negative alt_min alone
C7_Witness ==
    /\ out.op = "limit_check" /\ out.ret = "true"
    /\ guided_limit.alt_min_cm < 0 /\ inertial_nav.pos[3] < guided_limit.alt_min_cm
    /\ guided_limit.timeout_ms = U32(0)

\* C7 as stated: the horizontal test is live for every non-zero horiz_max, so
\* a negative horiz_max, which no distance falls below, is always breached
C7_Original ==
    out.op = "limit_check"
    => (out.ret = "true"
        <=> \/ /\ guided_limit.timeout_ms # U32(0)
               /\ Ge32(Sub32(now, guided_limit.start_time), guided_limit.timeout_ms)
            \/ guided_limit.alt_min_cm # 0 /\ inertial_nav.pos[3] < guided_limit.alt_min_cm
            \/ guided_limit.alt_max_cm # 0 /\ inertial_nav.pos[3] > guided_limit.alt_max_cm
            \/ /\ guided_limit.horiz_max_cm # 0
               /\ \/ guided_limit.horiz_max_cm < 0
                  \/ HorizDistSq > Sq(guided_limit.horiz_max_cm))

AllLimitsZero ==
    /\ guided_limit.timeout_ms = U32(0)
    /\ guided_limit.alt_min_cm = 0
    /\ guided_limit.alt_max_cm = 0
    /\ guided_limit.horiz_max_cm = 0

\* C8: limit_clear, and limit_set with four zeros, leave all four thresholds
\* zero, and with all four thresholds zero limit_check returns false whatever
\* the time, the position and the reference point are.
C8_ZeroLimitsNeverBreached ==
    /\ out.op = "limit_clear" => AllLimitsZero
    /\ (out.op = "limit_check" /\ AllLimitsZero) => out.ret = "false"

\* limit_check returned false with all thresholds zero, away from a reference
\* point taken earlier, and below and beside it
C8_Witness ==
    /\ out.op = "limit_check" /\ out.ret = "false" /\ AllLimitsZero
    /\ guided_limit.start_time # now /\ guided_limit.start_time # U32(0)
    /\ guided_limit.start_pos = <<301, 0, 151>>
    /\ inertial_nav.pos = <<0, 0, -60>>

(***************************************************************************)
(* SpecDrive: the drivers of every sub-mode ticking while the vehicle is   *)
(* armed, disarmed, landed and flying, and while targets go stale.         *)
(***************************************************************************)
NextDrive ==
    \/ \E v \in VehicleStates : SetVehicle(v)
    \/ \E y \in {0, 500} : Run([Env0 EXCEPT !.dt_ms = POSVEL_DT_MAX_MS, !.pilot_yaw_rate = y])
    \/ AdvanceTime(2002)
    \/ SetDestination(PosA, NoYaw, FALSE, Env0)
    \/ SetVelocity(VelA, RateOnly, TRUE, Env0)
    \/ SetDestinationPosVel(PosB, VelFast, NoYaw, Env0)
    \/ \E thr \in BOOLEAN :
          SetAngle(<<3000, 4000, 27000>>, IF thr THEN 500 ELSE 100, TRUE, 20000, thr, Env0)
    \/ DoCircle(LoiterTurns, [Env0 EXCEPT !.edge = <<301, 0, 0>>])

SpecDrive == Init /\ [][NextDrive]_vars

InterlockedDrivers == {"pos_control_run", "vel_control_run", "posvel_control_run",
                       "angle_control_run"}

\* C6: a tick of the Waypoint, Velocity, PositionVelocity or Angle driver with
\* the motors disarmed requests the safe spooled-down output and does nothing
\* else: no unlimited spool state, no controller update, no attitude or
\* throttle command, the landed flag not cleared, auto-armed not set.
C6_DisarmedTickSpoolsDown ==
    (out.op = "run" /\ out.driver \in InterlockedDrivers /\ ~motors.armed)
    => /\ out.calls = {"make_safe_spool_down"}
       /\ motors.desired_spool_state # THROTTLE_UNLIMITED
       /\ out.att = NoAtt

\* a disarmed tick of the velocity driver, landed, auto-armed and with a climb
\* target: arming is all that keeps the driver from starting a takeoff
C6_Witness ==
    /\ out.op = "run" /\ out.driver = "vel_control_run" /\ ~motors.armed
    /\ ap.auto_armed /\ ap.land_complete /\ guided_vel_target_cms[3] > 0
    /\ out.calls = {"make_safe_spool_down"}

(***************************************************************************)
(* SpecVel: velocity targets arriving, ageing and going stale under the    *)
(* velocity driver, in flight.                                             *)
(***************************************************************************)
Flying == Vehicle(TRUE, TRUE, FALSE, THROTTLE_UNLIMITED)

NextVel ==
    \/ SetVehicle(Flying)
    \/ \E v \in {VelA, VelB}, yo \in {NoYaw, RateOnly} : SetVelocity(v, yo, TRUE, Env0)
    \/ \E d \in {1000, 1001} : AdvanceTime(d)
    \/ \E y \in {0, 500}, av \in BOOLEAN :
          Run([Env0 EXCEPT !.pilot_yaw_rate = y, !.avoid_active = av])

SpecVel == Init /\ [][NextVel]_vars

\* a tick of the velocity driver that passed the arming interlock
VelocityTick ==
    /\ out.op = "run" /\ out.driver = "vel_control_run"
    /\ "update_vel_controller_xyz" \in out.calls

LimiterAsked == "accel_and_fence_limits" \in out.calls

\* C4: on a velocity tick past the interlock, a target older than 3000 ms makes
\* the velocity asked of the limiter (0,0,0) (the limiter is left alone when
\* the desired velocity is already zero) and zeroes a fixed yaw rate on the
\* same tick; a target at most 3000 ms old is asked for as stored; and the
\* desired velocity the limiter arrives at, before avoidance, is within
\* G_Dt*max_accel_xy horizontally and G_Dt*max_accel_z vertically of the
\* desired velocity before the tick.
C4_StaleVelocityDecays ==
    VelocityTick
    => /\ Gt32(Sub32(now, vel_update_time_ms), U32(3000))
          => /\ LimiterAsked => out.vel_req = Zero3
             /\ ~LimiterAsked => pos_control.desired_vel = Zero3
             /\ auto_yaw.mode = AUTO_YAW_RATE => auto_yaw.rate_cds = 0
       /\ ~Gt32(Sub32(now, vel_update_time_ms), U32(3000))
          => LimiterAsked /\ out.vel_req = guided_vel_target_cms
       /\ LimiterAsked
          => /\ NormSqXY(VSub(out.vel_limited, out.vel_prev))
                   <= Sq(TruncDiv(G_Dt_ms * pos_control.max_accel_xy, 1000))
             /\ Abs(out.vel_limited[3] - out.vel_prev[3])
                   <= TruncDiv(G_Dt_ms * pos_control.max_accel_z, 1000)

\* a stale tick decayed a desired velocity that was farther from zero than one
\* step of the limiter, and did not reach zero
C4_Witness ==
    /\ VelocityTick /\ LimiterAsked /\ out.stale
    /\ out.vel_req = Zero3
    /\ NormSqXY(out.vel_prev) > Sq(AccelStep(pos_control.max_accel_xy))
    /\ out.vel_limited # Zero3

(***************************************************************************)
(* SpecAngle: attitude targets arriving, ageing and going stale under the  *)
(* angle driver, on the ground and in flight.                              *)
(***************************************************************************)
NextAngle ==
    \/ \E v \in {Flying, Vehicle(TRUE, TRUE, TRUE, THROTTLE_UNLIMITED),
                 Vehicle(FALSE, FALSE, TRUE, SHUT_DOWN)} : SetVehicle(v)
    \/ \E thr \in BOOLEAN, yr \in BOOLEAN :
          SetAngle(<<3000, 4000, 27000>>, IF thr THEN 500 ELSE 100, yr, 20000, thr, Env0)
    \/ SetVelocity(VelA, NoYaw, TRUE, Env0)
    \/ \E d \in {1000, 1001} : AdvanceTime(d)
    \/ Run(Env0)

SpecAngle == Init /\ [][NextAngle]_vars

\* a tick of the angle driver with the attitude target older than 1000 ms
StaleAngleTick ==
    /\ out.op = "run" /\ out.driver = "angle_control_run"
    /\ Gt32(Sub32(now, guided_angle_state.update_time_ms), U32(1000))

NextCircle ==
    \/ \E e \in EnvCircle : DoCircle(LoiterTurns, e)
    \/ \E c \in Commands, e \in EnvVerify : VerifyCommand(c, e)
    \/ \E c \in Commands : StartCommand(c)
    \/ \E r \in BOOLEAN, y \in {0, 500} :
          Run([Env0 EXCEPT !.reached = r, !.pilot_yaw_rate = y])
    \/ \E p \in {Zero3, <<0, 0, 100>>} : Move(p, Zero3)
    \/ SetVehicle(Flying)
    \/ SetROI
    \/ SetVelocity(VelA, NoYaw, TRUE, Env0)

SpecCircle == Init /\ [][NextCircle]_vars

\* C9: a circle command leaves the sub-mode at CircleMoveToEdge when the
\* vehicle is more than 300 cm from the closest point on the circle and at
\* Circle otherwise; short of a new circle command, CircleMoveToEdge becomes
\* Circle only in a verify_command of a loiter-turns command that found the
\* destination reached; and no tick and no verify_command takes Circle back to
\* CircleMoveToEdge.
C9_CircleEntryAndTransition ==
    /\ [](out.op = "do_circle"
          => guided_mode = IF LengthSq(VSub(inertial_nav.pos, out.edge)) > Sq(300)
                           THEN Guided_CircleMoveToEdge ELSE Guided_Circle)
    /\ [][(guided_mode = Guided_CircleMoveToEdge /\ guided_mode' = Guided_Circle)
          => \/ out'.op = "do_circle"
             \/ /\ out'.op = "verify_command"
                /\ out'.cmd = MAV_CMD_NAV_LOITER_TURNS
                /\ out'.reached]_vars
    /\ [][(guided_mode = Guided_Circle /\ out'.op \in {"run", "verify_command"})
          => guided_mode' = Guided_Circle]_vars

\* verify_command found the edge reached and started the circle
C9_Witness ==
    /\ out.op = "verify_command" /\ out.cmd = MAV_CMD_NAV_LOITER_TURNS
    /\ out.reached /\ out.started = <<"circle_start">>
    /\ guided_mode = Guided_Circle

\* C11 as amended: while the vehicle's flight mode is guided, verify_command
\* of a command other than loiter-turns returns complete in every sub-mode and
\* vehicle state, and when the flight mode is not guided it returns not
\* complete; verify_command of a loiter-turns command in CircleMoveToEdge
\* returns complete only when the destination is reached and the command's
\* location cannot be converted, and then the sub-mode stays CircleMoveToEdge.
C11_VerifyCommandOutcome ==
    /\ (out.op = "verify_command" /\ out.cmd # MAV_CMD_NAV_LOITER_TURNS)
       => (out.ret = "true" <=> out.in_guided)
    /\ (/\ out.op = "verify_command" /\ out.cmd = MAV_CMD_NAV_LOITER_TURNS
        /\ guided_mode = Guided_CircleMoveToEdge /\ out.ret = "true")
       => (out.in_guided /\ out.reached /\ ~out.center_ok)

\* an unrecognised command was found complete in flight in the Velocity sub-mode
C11_Witness ==
    /\ out.op = "verify_command" /\ out.cmd = MAV_CMD_NAV_WAYPOINT
    /\ out.ret = "true" /\ guided_mode = Guided_Velocity /\ motors.armed

\* C11 as stated: a command other than loiter-turns is complete on every call,
\* and a loiter-turns command is never complete in CircleMoveToEdge
C11_Original ==
    /\ (out.op = "verify_command" /\ out.cmd # MAV_CMD_NAV_LOITER_TURNS)
       => out.ret = "true"
    /\ (/\ out.op = "verify_command" /\ out.cmd = MAV_CMD_NAV_LOITER_TURNS
        /\ guided_mode = Guided_CircleMoveToEdge)
       => out.ret # "true"

(***************************************************************************)
(* SpecPosVel: a position-velocity target dead-reckoned by the posvel      *)
(* driver in flight, with short and long measured intervals, until the     *)
(* target goes stale.                                                      *)
(***************************************************************************)
PosTargetInRange == \A i \in 1..3 : Abs(guided_pos_target_cm[i]) <= MaxCoord

VelC == <<20, 40, -20>>

NextPosVel ==
    \/ SetVehicle(Flying)
    \/ \E f \in BOOLEAN, yo \in {NoYaw, RateOnly} :
          SetDestinationPosVel(PosB, VelC, yo, [Env0 EXCEPT !.fence_ok = f])
    \/ AdvanceTime(1001)
    \/ \E dt \in {100, 150, POSVEL_DT_MAX_MS, 300} :
          PosTargetInRange /\ Run([Env0 EXCEPT !.dt_ms = dt])

SpecPosVel == Init /\ [][NextPosVel]_vars

\* C12: a posvel tick past the interlock with a target at most 3000 ms old
\* moves the stored position target by the velocity target times the measured
\* interval when the interval is below 200 ms and leaves it where it was when
\* the interval is 200 ms or more, and hands pos_control that position and the
\* horizontal velocity target.
C12_DeadReckoning ==
    [][(/\ out'.op = "run" /\ out'.driver = "posvel_control_run"
        /\ "update_xy_controller" \in out'.calls
        /\ ~Gt32(Sub32(now, posvel_update_time_ms), U32(3000)))
       => /\ \A i \in 1..3 :
                1000 * (guided_pos_target_cm'[i] - guided_pos_target_cm[i])
                   = guided_vel_target_cms[i] * (IF out'.dt_ms < 200 THEN out'.dt_ms ELSE 0)
          /\ pos_control'.pos_target = guided_pos_target_cm'
          /\ pos_control'.desired_vel[1] = guided_vel_target_cms[1]
          /\ pos_control'.desired_vel[2] = guided_vel_target_cms[2]
          /\ guided_vel_target_cms' = guided_vel_target_cms]_vars

\* after ticks of 100 ms and of 150 ms the target is 250 ms of travel from
\* where set_destination_posvel put it, and a tick of exactly 200 ms left it there
C12_Witness ==
    /\ out.op = "run" /\ out.driver = "posvel_control_run" /\ out.dt_ms = 200
    /\ "update_xy_controller" \in out.calls
    /\ guided_pos_target_cm = <<185, 250, 94>>
    /\ pos_control.pos_target = guided_pos_target_cm

(***************************************************************************)
(* SpecRace: set_destination_posvel running in the command-handling        *)
(* context while run() ticks in the scheduler's.  The file takes no lock   *)
(* and the targets are plain statics, so a tick may run between any two    *)
(* statements of the call; the stores of lines 354-356 are separate steps. *)
(***************************************************************************)
\* set_destination_posvel, lines 336-354: the fence test, the mode switch, the
\* yaw state and the store of the time stamp
PosVelEnter(destination, velocity, yo, e) ==
    /\ ingest.pc = "idle"
    /\ LET s == [Begin(S, "set_destination_posvel") EXCEPT
                    !.out.arg_pos = destination, !.out.arg_vel = velocity,
                    !.out.use_yaw = yo.use_yaw, !.out.yaw_opts = yo, !.out.use_yaw_rate = yo.use_yaw_rate,
                    !.out.fence_ok = e.fence_ok]
       IN IF ~e.fence_ok
          THEN Apply(RejectOutsideFence(s, e))
          ELSE LET s1 == IF NeedsStart(s, Guided_PosVel) THEN posvel_control_start(s, e) ELSE s
                   s2 == set_yaw_state(s1, yo)
               IN Apply([s2 EXCEPT !.posvel_update_time_ms = s.now,
                                   !.ingest = [pc |-> "line_355", destination |-> destination,
                                               velocity |-> velocity]])

\* line 355: guided_pos_target_cm = destination
PosVelStorePosition ==
    /\ ingest.pc = "line_355"
    /\ Apply([Begin(S, "set_destination_posvel") EXCEPT
                 !.guided_pos_target_cm = ingest.destination,
                 !.ingest.pc = "line_356"])

\* line 356: guided_vel_target_cms = velocity
PosVelStoreVelocity ==
    /\ ingest.pc = "line_356"
    /\ Apply([Begin(S, "set_destination_posvel") EXCEPT
                 !.guided_vel_target_cms = ingest.velocity,
                 !.ingest.pc = "line_358"])

\* lines 358-362: set_pos_target, the log entry and the return
PosVelReturn ==
    /\ ingest.pc = "line_358"
    /\ Apply(Return(Call([Begin(S, "set_destination_posvel") EXCEPT
                             !.out.arg_pos = ingest.destination,
                             !.out.arg_vel = ingest.velocity,
                             !.pos_control.pos_target = guided_pos_target_cm,
                             !.ingest = NoIngest],
                         "Log_Write_GuidedTarget"), "true"))

\* the position and velocity pairs the command handler sends
PosVelUpdates == {<<PosA, VelA>>, <<PosB, VelC>>}

NextRace ==
    \/ SetVehicle(Flying)
    \/ \E u \in PosVelUpdates, f \in BOOLEAN :
          PosVelEnter(u[1], u[2], NoYaw, [Env0 EXCEPT !.fence_ok = f])
    \/ PosVelStorePosition
    \/ PosVelStoreVelocity
    \/ PosVelReturn
    \/ AdvanceTime(2002)
    \/ Run([Env0 EXCEPT !.dt_ms = POSVEL_DT_MAX_MS])

SpecRace == Init /\ [][NextRace]_vars

\* C13 as stated: the position a posvel tick pushes and the velocity it
\* pushes with it are the position and the velocity of one and the same
\* set_destination_posvel call.
C13_NoTornTarget ==
    (/\ out.op = "run" /\ out.driver = "posvel_control_run"
     /\ "update_xy_controller" \in out.calls /\ ~out.stale)
    => <<pos_control.pos_target, guided_vel_target_cms>> \in PosVelUpdates

\* C14: whenever use_thrust is true climb_rate_cms is 0, thrust and
\* climb_rate_cms are never both non-zero, and right after a set_angle call the
\* field use_thrust does not select is 0.  (A stale tick clears use_thrust and
\* keeps the stored thrust.)
C14_ThrustClimbDuality ==
    /\ guided_angle_state.use_thrust => guided_angle_state.climb_rate_cms = 0
    /\ guided_angle_state.thrust = 0 \/ guided_angle_state.climb_rate_cms = 0
    /\ (out.op = "set_angle" /\ ~guided_angle_state.use_thrust)
       => guided_angle_state.thrust = 0

\* a stale angle tick after a set_angle call with a thrust: use_thrust is
\* cleared, the stored thrust is kept, the climb rate is 0
C14_Witness ==
    /\ out.op = "run" /\ out.driver = "angle_control_run" /\ out.stale
    /\ ~guided_angle_state.use_thrust
    /\ guided_angle_state.thrust = 500 /\ guided_angle_state.climb_rate_cms = 0

\* C14 as stated: the field use_thrust does not select is 0 in every state
C14_Original ==
    /\ guided_angle_state.use_thrust => guided_angle_state.climb_rate_cms = 0
    /\ ~guided_angle_state.use_thrust => guided_angle_state.thrust = 0

\* a set_destination(Location) call that passed the fence and was refused by
\* wp_nav->set_wp_destination
RefusedDestination(o) ==
    o.op = "set_destination_loc" /\ o.fence_ok /\ ~o.terrain_ok

\* C15: a set_destination(Location) call that passes the fence and is
\* refused by the waypoint navigation returns false with the error
\* FAILED_TO_SET_DESTINATION logged and no target logged, leaves the sub-mode
\* Waypoint, and does not apply the requested yaw options: the yaw state is
\* the one before the call when the sub-mode already was Waypoint and the
\* default one of the mode switch otherwise; the waypoint destination is not
\* the requested one and the targets, time stamps and limits are untouched.
C15_RefusedDestination ==
    [][RefusedDestination(out')
       => /\ out'.ret = "false" /\ out'.err = "FAILED_TO_SET_DESTINATION"
          /\ "Log_Write_GuidedTarget" \notin out'.calls
          /\ guided_mode' = Guided_WP
          /\ IF guided_mode = Guided_WP
             THEN /\ out'.started = <<>>
                  /\ UNCHANGED <<auto_yaw, wp_nav, pos_control>>
             ELSE /\ out'.started = <<"pos_control_start">>
                  /\ auto_yaw'.mode \in DefaultYawModes
                  /\ wp_nav'.dest # out'.arg_pos
          /\ UNCHANGED <<guided_pos_target_cm, guided_vel_target_cms,
                         posvel_update_time_ms, vel_update_time_ms,
                         guided_angle_state, guided_limit, circle_nav,
                         motors, ap, inertial_nav, now>>]_vars

\* a refused call that asked for a yaw rate while the sub-mode was Velocity
\* with a yaw rate in force: the sub-mode is Waypoint, the yaw state the default
C15_Witness ==
    /\ RefusedDestination(out) /\ out.use_yaw_rate
    /\ out.started = <<"pos_control_start">>
    /\ guided_mode = Guided_WP /\ auto_yaw.mode = AUTO_YAW_LOOK_AT_NEXT_WP
    /\ vel_update_time_ms # U32(0)

(***************************************************************************)
(* SpecRun: run() ticking in every sub-mode, from a take-off request       *)
(* through the waypoint, velocity, posvel, angle and circle targets.       *)
(***************************************************************************)
NextRun ==
    \/ \E v \in {Flying, Vehicle(TRUE, TRUE, TRUE, GROUND_IDLE)} : SetVehicle(v)
    \/ \E rf \in BOOLEAN : DoUserTakeoffStart(500, [Env0 EXCEPT !.rangefinder_ok = rf])
    \/ \E r \in BOOLEAN, f \in BOOLEAN :
          Run([Env0 EXCEPT !.dt_ms = POSVEL_DT_MAX_MS, !.reached = r, !.fence_ok = f])
    \/ SetDestination(PosA, NoYaw, FALSE, Env0)
    \/ SetVelocity(VelA, NoYaw, TRUE, Env0)
    \/ SetDestinationPosVel(PosB, VelC, NoYaw, Env0)
    \/ SetAngle(<<3000, 4000, 27000>>, 100, TRUE, 20000, FALSE, Env0)
    \/ \E g \in {<<0, 0, 0>>, <<301, 0, 0>>} : DoCircle(LoiterTurns, [Env0 EXCEPT !.edge = g])

SpecRun == Init /\ [][NextRun]_vars

\* a tick of the take-off driver at which wp_nav reports the destination reached
TakeoffReachedTick(o) ==
    o.op = "run" /\ o.driver = "takeoff_run" /\ o.reached

\* C16 as stated: after a take-off tick at which the destination is reported
\* reached the sub-mode is Waypoint and the waypoint destination is the
\* take-off destination with the same terrain flag.
C16_TakeoffHandsOver ==
    [][TakeoffReachedTick(out')
       => /\ guided_mode' = Guided_WP
          /\ wp_nav' = wp_nav]_vars

\* C18: the sub-mode is always one of the seven values, and every call of
\* run() invokes the one driver of the sub-mode it is called in: TakeOff the
\* take-off driver, Waypoint and CircleMoveToEdge the position driver, Velocity
\* the velocity driver, PositionVelocity the posvel driver, Angle the angle
\* driver, Circle the circle driver.
C18_OneDriverPerTick ==
    /\ [](guided_mode \in GuidedModes)
    /\ [][out'.op = "run"
          => /\ guided_mode = Guided_TakeOff => out'.driver = "takeoff_run"
             /\ guided_mode = Guided_WP => out'.driver = "pos_control_run"
             /\ guided_mode = Guided_CircleMoveToEdge => out'.driver = "pos_control_run"
             /\ guided_mode = Guided_Velocity => out'.driver = "vel_control_run"
             /\ guided_mode = Guided_PosVel => out'.driver = "posvel_control_run"
             /\ guided_mode = Guided_Angle => out'.driver = "angle_control_run"
             /\ guided_mode = Guided_Circle => out'.driver = "circle_run"
             /\ out'.driver # "none"]_vars

\* a tick in CircleMoveToEdge, in flight, ran the position driver
C18_Witness ==
    /\ out.op = "run" /\ guided_mode = Guided_CircleMoveToEdge
    /\ out.driver = "pos_control_run" /\ "update_wpnav" \in out.calls

(***************************************************************************)
(* SpecFrame: every operation of the mode called with limits configured    *)
(* and a reference time and position taken.                                *)
(***************************************************************************)
NextFrame ==
    \/ LimitClear
    \/ LimitSet(U32(2002), 100, 150, 300)
    \/ LimitInitTimeAndPos
    \/ LimitCheck
    \/ Enter(Env0)
    \/ SetVehicle(Flying)
    \/ Move(PosB, Zero3)
    \/ SetDestination(PosA, NoYaw, FALSE, Env0)
    \/ SetDestinationLoc(Location(PosB, "ABOVE_TERRAIN"), NoYaw, Env0)
    \/ SetVelocity(VelA, NoYaw, TRUE, Env0)
    \/ SetDestinationPosVel(PosB, VelC, NoYaw, Env0)
    \/ SetAngle(<<3000, 4000, 27000>>, 100, TRUE, 20000, FALSE, Env0)
    \/ DoUserTakeoffStart(500, Env0)
    \/ DoCircle(LoiterTurns, [Env0 EXCEPT !.edge = <<301, 0, 0>>])
    \/ StartCommand(LoiterTurns)
    \/ \E r \in BOOLEAN : VerifyCommand(LoiterTurns, [Env0 EXCEPT !.reached = r])
    \/ \E r \in BOOLEAN : Run([Env0 EXCEPT !.dt_ms = POSVEL_DT_MAX_MS, !.reached = r])

SpecFrame == Init /\ [][NextFrame]_vars

\* C17: timeout_ms, alt_min_cm, alt_max_cm and horiz_max_cm change only
\* in limit_set and limit_clear, start_time and start_pos only in
\* limit_init_time_and_pos, and limit_check changes no state at all.
C17_LimitFrame ==
    [][/\ out'.op \notin {"limit_set", "limit_clear"}
          => /\ guided_limit'.timeout_ms = guided_limit.timeout_ms
             /\ guided_limit'.alt_min_cm = guided_limit.alt_min_cm
             /\ guided_limit'.alt_max_cm = guided_limit.alt_max_cm
             /\ guided_limit'.horiz_max_cm = guided_limit.horiz_max_cm
       /\ out'.op # "limit_init_time_and_pos"
          => /\ guided_limit'.start_time = guided_limit.start_time
             /\ guided_limit'.start_pos = guided_limit.start_pos
       /\ out'.op = "limit_check"
          => UNCHANGED <<guided_mode, guided_pos_target_cm, guided_vel_target_cms,
                         posvel_update_time_ms, vel_update_time_ms, guided_angle_state,
                         guided_limit, auto_yaw, wp_nav, pos_control, circle_nav,
                         motors, ap, inertial_nav, now, ingest>>]_vars

\* limit_check called in the Angle sub-mode with the limits set and the
\* reference taken away from the origin: all still in place
C17_Witness ==
    /\ out.op = "limit_check" /\ guided_mode = Guided_Angle
    /\ guided_limit.timeout_ms = U32(2002) /\ guided_limit.horiz_max_cm = 300
    /\ guided_limit.start_pos = PosB /\ guided_limit.start_time = StartTime

\* C19 as stated: a velocity tick with the vehicle armed, auto-armed and
\* landed and the velocity target older than 3000 ms does not initiate
\* take-off: it requests the safe spooled-down output, not THROTTLE_UNLIMITED,
\* and leaves the landed flag set.
C19_StaleTargetNoTakeoff ==
    [][(/\ out'.op = "run" /\ out'.driver = "vel_control_run"
        /\ motors.armed /\ ap.auto_armed /\ ap.land_complete
        /\ Gt32(Sub32(now, vel_update_time_ms), U32(GUIDED_POSVEL_TIMEOUT_MS)))
       => /\ out'.calls = {"make_safe_spool_down"}
          /\ motors'.desired_spool_state # THROTTLE_UNLIMITED
          /\ ap'.land_complete]_vars

(***************************************************************************)
(* SpecArm: the angle driver ticking on the ground and in flight, armed    *)
(* with and without auto-armed, with fresh and stale targets and with the  *)
(* avoidance holding the climb rate at zero or leaving it alone.           *)
(***************************************************************************)
NextArm ==
    \/ \E v \in {Flying, Vehicle(TRUE, FALSE, TRUE, GROUND_IDLE),
                 Vehicle(TRUE, TRUE, TRUE, THROTTLE_UNLIMITED),
                 Vehicle(FALSE, FALSE, TRUE, SHUT_DOWN)} : SetVehicle(v)
    \/ \E thr \in BOOLEAN, c \in {-100, 0, 100} :
          SetAngle(<<3000, 4000, 27000>>, IF thr THEN 5 * c ELSE c, FALSE, 0, thr, Env0)
    \/ \E d \in {1000, 1001} : AdvanceTime(d)
    \/ \E m \in {0, 1000 * 100} : Run([Env0 EXCEPT !.avoid_climb_max = m])

SpecArm == Init /\ [][NextArm]_vars

\* a tick of the angle driver
AngleTick == out.op = "run" /\ out.driver = "angle_control_run"

Arm == ~motors.armed /\ SetVehicle(Vehicle(TRUE, TRUE, TRUE, GROUND_IDLE))

NextLift ==
    \/ Arm
    \/ SpoolUp
    \/ \E v \in {VelA, VelB} : SetVelocity(v, NoYaw, TRUE, Env0)
    \/ \E c \in {-100, 100} : SetAngle(<<3000, 4000, 27000>>, c, FALSE, 0, FALSE, Env0)
    \/ \E d \in {1001, 2002} : AdvanceTime(d)
    \/ Run(Env0)

\* a tick would change the state: ENABLED <<Run(Env0)>>_vars, computed from run
TickIsStep == run(Begin(S, "run"), Env0) # S

\* the scheduler calls run() at 100 Hz or more and the motors follow the
\* requested spool state: weak fairness of the tick, written out with
\* TickIsStep for its enabling condition, and weak fairness of SpoolUp
SpecLift ==
    /\ Init /\ [][NextLift]_vars
    /\ ([]<>(~TickIsStep) \/ []<><<Run(Env0)>>_vars)
    /\ WF_vars(SpoolUp)

\* armed and auto-armed in Velocity with a positive stored vertical velocity
VelClimbIntent ==
    /\ motors.armed /\ ap.auto_armed /\ guided_mode = Guided_Velocity
    /\ guided_vel_target_cms[3] > 0

\* armed and auto-armed in Angle with a fresh positive climb rate
AngleClimbIntent ==
    /\ motors.armed /\ ap.auto_armed /\ guided_mode = Guided_Angle
    /\ ~guided_angle_state.use_thrust /\ guided_angle_state.climb_rate_cms > 0
    /\ ~AngleTargetStale(now, guided_angle_state.update_time_ms)

\* what a tick of the implicit take-off does
LiftTick ==
    /\ motors'.desired_spool_state = THROTTLE_UNLIMITED
    /\ "zero_throttle_and_relax_ac" \in out'.calls
    /\ out'.calls \cap {"update_vel_controller_xyz", "attitude_control_input",
                        "set_alt_target_from_climb_rate_ff", "update_z_controller",
                        "set_throttle_out", "make_safe_spool_down"} = {}
    /\ out'.att = NoAtt
    /\ ap'.land_complete <=> motors.spool_state # THROTTLE_UNLIMITED
    /\ "set_throttle_takeoff" \in out'.calls <=> ~ap'.land_complete

C22_StalePosVelFreezes ==
    /\ [][(/\ out'.op = "run" /\ out'.driver = "posvel_control_run"
           /\ "update_xy_controller" \in out'.calls
           /\ Gt32(Sub32(now, posvel_update_time_ms), U32(GUIDED_POSVEL_TIMEOUT_MS)))
          => /\ guided_vel_target_cms' = Zero3
             /\ guided_pos_target_cm' = guided_pos_target_cm
             /\ pos_control'.pos_target = guided_pos_target_cm
             /\ pos_control'.desired_vel[1] = 0 /\ pos_control'.desired_vel[2] = 0
             /\ auto_yaw.mode = AUTO_YAW_RATE
                => (auto_yaw'.mode = AUTO_YAW_RATE /\ auto_yaw'.rate_cds = 0)
             /\ guided_mode' = Guided_PosVel
             /\ out'.err = "none" /\ out'.ret = "void"]_vars
    /\ [][(/\ guided_mode = Guided_PosVel /\ guided_vel_target_cms = Zero3
           /\ out'.op # "set_destination_posvel")
          => /\ guided_mode' = Guided_PosVel
             /\ guided_vel_target_cms' = Zero3
             /\ guided_pos_target_cm' = guided_pos_target_cm]_vars

\* a stale tick with a short measured interval and a yaw rate in force: the
\* target, dead-reckoned for 100 ms while fresh, is pushed where it stood
C22_Witness ==
    /\ out.op = "run" /\ out.driver = "posvel_control_run" /\ out.stale
    /\ out.dt_ms = 100 /\ "update_xy_controller" \in out.calls
    /\ guided_vel_target_cms = Zero3 /\ guided_pos_target_cm = <<182, 244, 97>>
    /\ pos_control.pos_target = guided_pos_target_cm
    /\ auto_yaw.mode = AUTO_YAW_RATE /\ auto_yaw.rate_cds = 0

(***************************************************************************)
(* SpecDecay: a velocity target ramped in by the limiter, then left to go  *)
(* stale in flight while ticks keep running.                               *)
(***************************************************************************)
NextDecay ==
    \/ SetVehicle(Flying)
    \/ \E v \in {VelA, VelFast} : SetVelocity(v, NoYaw, TRUE, Env0)
    \/ AdvanceTime(2002)
    \/ Run(Env0)

\* the scheduler calls run() at 100 Hz or more: weak fairness of the tick
SpecDecay ==
    /\ Init /\ [][NextDecay]_vars
    /\ ([]<>(~TickIsStep) \/ []<><<Run(Env0)>>_vars)

\* in flight in Velocity with the target older than 3000 ms
StaleInFlight ==
    /\ guided_mode = Guided_Velocity
    /\ motors.armed /\ ap.auto_armed /\ ~ap.land_complete
    /\ VelTargetStale(now, vel_update_time_ms)

\* C23: in flight in Velocity with a stale target and ticks running, the
\* desired velocity of pos_control reaches (0,0,0) unless a set_velocity call
\* arrives first; no stale tick increases its horizontal length or |z|; and
\* once (0,0,0) it stays so under every step but a set_velocity call.
C23_VelocityDecaysToZero ==
    /\ StaleInFlight ~> (~StaleInFlight \/ pos_control.desired_vel = Zero3)
    /\ [][(StaleInFlight /\ out'.op = "run")
          => /\ NormSqXY(pos_control'.desired_vel) <= NormSqXY(pos_control.desired_vel)
             /\ Abs(pos_control'.desired_vel[3]) <= Abs(pos_control.desired_vel[3])
             /\ pos_control.desired_vel # Zero3
                => LengthSq(pos_control'.desired_vel) < LengthSq(pos_control.desired_vel)]_vars
    /\ [][(StaleInFlight /\ pos_control.desired_vel = Zero3 /\ out'.op # "set_velocity")
          => pos_control'.desired_vel = Zero3]_vars

\* a stale tick took the last step to zero from a desired velocity that had
\* been ramped up towards (30,40,20)
C23_Witness ==
    /\ StaleInFlight /\ out.op = "run" /\ out.stale
    /\ guided_vel_target_cms = VelFast
    /\ out.vel_prev = <<3, 4, 0>> /\ pos_control.desired_vel = Zero3

\* an ingestion call with yaw arguments that was not turned down
YawCallAccepted(o) ==
    /\ o.op \in {"set_destination", "set_destination_loc", "set_velocity",
                 "set_destination_posvel"}
    /\ o.ret # "false"

\* C24: an accepted ingestion call with use_yaw set leaves the yaw state a
\* fixed yaw of yaw_cd/100 degrees with the relative flag as given, whether or
\* not use_yaw_rate is set too; with use_yaw clear and use_yaw_rate set it
\* leaves a yaw rate of yaw_rate_cds; with both clear, and in set_angle and in
\* a call that is turned down, the yaw state is the one before the call when
\* the sub-mode already matched.
C24_YawStateApplication ==
    [][/\ YawCallAccepted(out')
          => LET yo == out'.yaw_opts
             IN /\ yo.use_yaw
                   => /\ auto_yaw'.mode = AUTO_YAW_FIXED
                      /\ auto_yaw'.yaw_deg * 100 = yo.yaw_cd
                      /\ auto_yaw'.rate_cds = 0
                      /\ auto_yaw'.relative = yo.relative_yaw
                /\ (~yo.use_yaw /\ yo.use_yaw_rate)
                   => /\ auto_yaw'.mode = AUTO_YAW_RATE
                      /\ auto_yaw'.rate_cds = yo.yaw_rate_cds
                /\ (~yo.use_yaw /\ ~yo.use_yaw_rate /\ out'.started = <<>>)
                   => auto_yaw' = auto_yaw
       /\ (out'.op \in IngestionOps /\ ~YawCallAccepted(out') /\ out'.started = <<>>)
          => auto_yaw' = auto_yaw]_vars

\* set_destination called in Waypoint with use_yaw and use_yaw_rate both set:
\* the yaw state is the fixed yaw of 90 degrees, not a rate
C24_Witness ==
    /\ out.op = "set_destination" /\ out.ret = "true" /\ out.started = <<>>
    /\ out.yaw_opts.use_yaw /\ out.yaw_opts.use_yaw_rate
    /\ auto_yaw = YawState(AUTO_YAW_FIXED, 90, 0, FALSE)

(***************************************************************************)
(* SpecQuiet: ticks and verify_command in every sub-mode, with targets     *)
(* fresh and stale, the vehicle flying, landed and disarmed, and a limit   *)
(* set and run out.                                                        *)
(***************************************************************************)
NextQuiet ==
    \/ \E v \in {Flying, Vehicle(TRUE, TRUE, TRUE, GROUND_IDLE),
                 Vehicle(FALSE, FALSE, TRUE, SHUT_DOWN)} : SetVehicle(v)
    \/ AdvanceTime(4004)
    \/ LimitSet(U32(2002), 0, 0, 0)
    \/ LimitCheck
    \/ DoUserTakeoffStart(500, Env0)
    \/ SetDestination(PosA, NoYaw, FALSE, Env0)
    \/ SetVelocity(VelA, NoYaw, TRUE, Env0)
    \/ SetDestinationPosVel(PosB, VelC, NoYaw, Env0)
    \/ SetAngle(<<3000, 4000, 27000>>, 100, TRUE, 20000, FALSE, Env0)
    \/ \E g \in {<<0, 0, 0>>, <<301, 0, 0>>} : DoCircle(LoiterTurns, [Env0 EXCEPT !.edge = g])
    \/ \E r \in BOOLEAN : VerifyCommand(LoiterTurns, [Env0 EXCEPT !.reached = r])
    \/ \E r \in BOOLEAN, f \in BOOLEAN :
          Run([Env0 EXCEPT !.dt_ms = POSVEL_DT_MAX_MS, !.reached = r, !.fence_ok = f])

SpecQuiet == Init /\ [][NextQuiet]_vars

\* C25: a call of run() leaves the sub-mode as it is, except that a
\* take-off tick with the destination reached may leave it Waypoint; a call of
\* verify_command leaves it as it is, except that it may turn CircleMoveToEdge
\* into Circle; limit_check leaves it as it is.
C25_ExplicitTransitionsOnly ==
    [][/\ out'.op = "run"
          => \/ guided_mode' = guided_mode
             \/ /\ guided_mode = Guided_TakeOff /\ guided_mode' = Guided_WP
                /\ out'.reached
       /\ out'.op = "verify_command"
          => \/ guided_mode' = guided_mode
             \/ guided_mode = Guided_CircleMoveToEdge /\ guided_mode' = Guided_Circle
       /\ out'.op = "limit_check"
          => guided_mode' = guided_mode]_vars

\* a posvel tick in flight with the target stale and the limit's time run out
C25_Witness ==
    /\ out.op = "run" /\ out.driver = "posvel_control_run" /\ out.stale
    /\ guided_mode = Guided_PosVel
    /\ LimitBreached(guided_limit, now, inertial_nav.pos)

\* C26 as stated: a tick of the Waypoint, Velocity or PositionVelocity driver
\* that takes the safe spool-down path leaves the yaw state as it was before
\* the tick.
C26_InterlockBeforeYaw ==
    [][(/\ out'.op = "run"
        /\ out'.driver \in {"pos_control_run", "vel_control_run", "posvel_control_run"}
        /\ "make_safe_spool_down" \in out'.calls)
       => auto_yaw' = auto_yaw]_vars

\* a region of interest is the yaw mode
YawIsROI == auto_yaw.mode = AUTO_YAW_ROI

VelEnter(velocity, yo, e) ==
    /\ ingest.pc = "idle"
    /\ LET s == [Begin(S, "set_velocity") EXCEPT
                    !.out.arg_vel = velocity, !.out.use_yaw = yo.use_yaw,
                    !.out.yaw_opts = yo, !.out.use_yaw_rate = yo.use_yaw_rate]
           s1 == IF NeedsStart(s, Guided_Velocity) THEN vel_control_start(s, e) ELSE s
           s2 == set_yaw_state(s1, yo)
       IN Apply([s2 EXCEPT !.ingest = [pc |-> "line_322", destination |-> Zero3,
                                       velocity |-> velocity]])

\* line 322: guided_vel_target_cms = velocity
VelStoreTarget ==
    /\ ingest.pc = "line_322"
    /\ Apply([Begin(S, "set_velocity") EXCEPT
                 !.out.arg_vel = ingest.velocity,
                 !.guided_vel_target_cms = ingest.velocity,
                 !.ingest.pc = "line_323"])

\* line 323: vel_update_time_ms = millis(), and the return (log_request false)
VelStoreTime ==
    /\ ingest.pc = "line_323"
    /\ Apply([Begin(S, "set_velocity") EXCEPT
                 !.out.arg_vel = ingest.velocity,
                 !.vel_update_time_ms = now,
                 !.ingest = NoIngest])

\* the velocities set_velocity is called with
VelocityUpdates == {VelA, VelB}

NextLeak ==
    \/ SetVehicle(Flying)
    \/ ingest.pc = "idle" /\ SetDestinationPosVel(PosB, VelC, NoYaw, Env0)
    \/ \E v \in VelocityUpdates : VelEnter(v, NoYaw, Env0)
    \/ VelStoreTarget
    \/ VelStoreTime
    \/ AdvanceTime(2002)
    \/ Run(Env0)

SpecLeak == Init /\ [][NextLeak]_vars

\* C28 as stated: the velocity a Velocity tick that is not stale asks of the
\* limiter is a velocity a set_velocity call was given, never the velocity a
\* set_destination_posvel call left in the shared target.
C28_NoLeftoverTarget ==
    (/\ out.op = "run" /\ out.driver = "vel_control_run"
     /\ ~out.stale /\ "update_vel_controller_xyz" \in out.calls)
    => out.vel_req \in VelocityUpdates

\* C29 as stated: a do_user_takeoff_start call that returns false leaves the
\* sub-mode as it was.
C29_RejectedTakeoffKeepsMode ==
    [][(out'.op = "do_user_takeoff_start" /\ out'.ret = "false")
       => guided_mode' = guided_mode]_vars

(***************************************************************************)
(* SpecClock: the clock runs across the wrap of the 32 bit counter while   *)
(* the velocity, posvel and angle targets and the limit wait to time out.  *)
(***************************************************************************)
\* the time out of the limit in SpecClock, ms
ClockLimitTimeout == 2 * 1000

NextClock ==
    \/ SetVehicle(Flying)
    \/ \E d \in {1000, 2001} : AdvanceTime(d)
    \/ SetVelocity(VelA, NoYaw, FALSE, Env0)
    \/ SetDestinationPosVel(PosB, Zero3, NoYaw, Env0)
    \/ SetAngle(<<3000, 4000, 27000>>, 100, FALSE, 0, FALSE, Env0)
    \/ LimitSet(U32(ClockLimitTimeout), 0, 0, 0)
    \/ LimitInitTimeAndPos
    \/ LimitCheck
    \/ Run(Env0)

SpecClock == Init /\ [][NextClock]_vars

\* the milliseconds that have really passed since StartTime when the counter
\* reads t: a reading from StartTime up was taken before the wrap, a smaller
\* one after it
MillisSinceStart(t) ==
    IF Ge32(t, StartTime)
    THEN t[2] - StartTime[2]
    ELSE (WORD - StartTime[2]) + t[1] * WORD + t[2]

\* the milliseconds that have really passed since the counter read t
TrueElapsed(t) == MillisSinceStart(now) - MillisSinceStart(t)

\* the counter has wrapped since it read t
WrappedSince(t) == Ge32(t, StartTime) /\ ~Ge32(now, StartTime)

====
